---------------------------- MODULE Spec2Model ----------------------------
(***************************************************************************)
(* A model of the smart-home IoT pipeline: the server's alert engine,      *)
(* message router and control synchronizer (src/backend/app) and the edge  *)
(* device's PIR motion state machine, DHT22 sensor and controller loop     *)
(* (src/raspberry-pi), and the server's PubNub service.                    *)
(*                                                                         *)
(* Conventions.  A Python dict is a function with a string domain          *)
(* ("k" :> v @@ ...), so `k in d` is `k \in DOMAIN d`.  An Optional value  *)
(* is a set with at most one element: None is {} and a value v is {v}.     *)
(* Sensor values and thresholds are in tenths of their unit (30.0 is 300). *)
(* Times are in tenths of a second (0.1 s is 1).                           *)
(***************************************************************************)
EXTENDS Integers, Sequences, FiniteSets, TLC

VARIABLES
    thresholds,     \* AlertService.THRESHOLDS
    readings,       \* rows of the sensor_readings table, in insertion order
    alerts,         \* rows of the alerts table, in insertion order
    deviceStates,   \* rows of the device_states table, in insertion order
    config,         \* Config.PUBNUB_*_CHANNEL: [sensor, control, alert]
    router,         \* PubNubHandler: pubnub_service, its handlers and subscriptions
    lastCall,       \* the operation that ran last: its inputs, its steps, its result
    calls,          \* number of operations run so far
    pir,            \* the PIRSensor object's fields
    now,            \* the wall clock (time.time())
    fed,            \* raw samples taken by PIRSensor.read so far: <<time, value>>
    callbacks,      \* number of invocations of the two motion callbacks
    threads,        \* the request threads inside control_led / control_buzzer
    dht,            \* the DHT22Sensor object's fields
    controller,     \* the SmartHomeController of the edge device
    pubnub          \* the server's PubNubService object

vars == <<thresholds, readings, alerts, deviceStates, config, router,
          lastCall, calls, pir, now, fed, callbacks, threads,
          dht, controller, pubnub>>

edgeVars == <<pir, now, fed, callbacks>>
restVars == <<dht, controller, pubnub>>

None == {}
Some(v) == {v}
\* dict.get(k): None when the key is absent
Get(d, k) == IF k \in DOMAIN d THEN Some(d[k]) ELSE None
\* Python truthiness of an Optional string and of an Optional number
TruthyStr(o) == o # None /\ o # Some("")
TruthyNum(o) == o # None /\ o # Some(0)
TheValue(o) == CHOOSE v \in o : TRUE
Last(s) == s[Len(s)]

-----------------------------------------------------------------------------
(* Bounds of the model *)

MaxCalls == 3       \* router and control operations run in one behaviour
MaxChecks == 2      \* direct check_thresholds calls in one behaviour
MaxReads == 4       \* PIRSensor.read calls in one behaviour
MaxThreadCalls == 2 \* control calls made by the concurrent request threads
MaxSensorCalls == 3 \* DHT22Sensor read and read_with_retry calls in one behaviour
MaxAttempts == 3    \* largest max_attempts given to read_with_retry
MaxIterations == 2  \* iterations of the edge controller's polling loop
MaxCommands == 2    \* control commands the edge controller receives
MaxRequests == 2    \* requests made to the control API
MaxServiceCalls == 4 \* calls of and deliveries to the server's PubNubService
MaxToggles == 3     \* toggles of one sequence

-----------------------------------------------------------------------------
(* Alert engine: src/backend/app/services/alert_service.py *)

\* AlertService.THRESHOLDS as the source sets it
THRESHOLDS ==
    ("temperature" :> (("high" :> 300) @@ ("low" :> 150))) @@
    ("humidity" :> (("high" :> 700) @@ ("low" :> 300))) @@
    ("light" :> ("low" :> 500))

\* The tables the engine is run with: the source's table, a table whose low
\* bound lies above its high bound (both can be violated at once), and a table
\* with a high bound only.
ThresholdTables ==
    { THRESHOLDS,
      ("temperature" :> (("high" :> 150) @@ ("low" :> 300))) @@
      ("light" :> ("low" :> 500)),
      ("humidity" :> ("high" :> 700)) }

SensorTypes == {"temperature", "humidity", "light", "motion", "pressure"}
SensorValues == {0, 149, 150, 151, 200, 299, 300, 301, 315, 500, 700, 701}
DeviceIds == {"rpi-001"}

\* Alert.from_pubnub_message: the Alert row built from an alert message
AlertFromMessage(message) ==
    LET given == Get(message, "alert_type")
        alert_type == IF TruthyStr(given) THEN TheValue(given)
                      ELSE IF "sensor_type" \in DOMAIN message
                           THEN "ALERT_" \o message["sensor_type"]
                           ELSE "ALERT_UNKNOWN"
    IN  [ alert_type |-> alert_type,
          severity |-> IF "severity" \in DOMAIN message
                       THEN message["severity"] ELSE "info",
          sensor_type |-> Get(message, "sensor_type"),
          sensor_value |-> IF TruthyNum(Get(message, "value"))
                           THEN Get(message, "value")
                           ELSE Get(message, "sensor_value"),
          threshold_value |-> Get(message, "threshold_value") ]

\* SaveAlert without the test for a missing alert_type
SaveAlertUnchecked(alert_data, dbOk) ==
    IF dbOk THEN Some(AlertFromMessage(alert_data)) ELSE None
\* AlertService.save_alert: the Alert row committed, or None.  dbOk is the
\* outcome of db.session.commit().
SaveAlert(alert_data, dbOk) ==
    IF ~TruthyStr(Get(alert_data, "alert_type")) THEN None
    ELSE IF dbOk THEN Some(AlertFromMessage(alert_data))
    ELSE None

\* The alert_data dict check_thresholds builds (None when no bound is breached)
\* HighBreached with the comparison made non-strict
HighBreachedNonStrict(th, value) == "high" \in DOMAIN th /\ value >= th["high"]
HighBreached(th, value) == "high" \in DOMAIN th /\ value > th["high"]
LowBreached(th, value) == "low" \in DOMAIN th /\ value < th["low"]

AlertData(table, sensor_type, value, device_id) ==
    IF sensor_type \notin DOMAIN table THEN None
    ELSE LET th == table[sensor_type] IN
         IF HighBreached(th, value)
         THEN Some(("type" :> "alert") @@
                   ("alert_type" :> "HIGH_TEMPERATURE") @@
                   ("severity" :> "warning") @@
                   ("sensor_type" :> sensor_type) @@
                   ("value" :> value) @@
                   ("threshold_value" :> th["high"]) @@
                   ("device_id" :> device_id))
         ELSE IF LowBreached(th, value)
         THEN Some(("type" :> "alert") @@
                   ("alert_type" :> "LOW_TEMPERATURE") @@
                   ("severity" :> "info") @@
                   ("sensor_type" :> sensor_type) @@
                   ("value" :> value) @@
                   ("threshold_value" :> th["low"]) @@
                   ("device_id" :> device_id))
         ELSE None

\* AlertService.check_thresholds: the alert returned (None or the saved row)
CheckThresholdsResult(table, sensor_type, value, device_id, dbOk) ==
    LET alert_data == AlertData(table, sensor_type, value, device_id)
    IN  IF alert_data # None THEN SaveAlert(TheValue(alert_data), dbOk) ELSE None

\* A call of check_thresholds(sensor_type, value, device_id)
CheckThresholds(sensor_type, value, device_id, dbOk) ==
    LET alert_data == AlertData(thresholds, sensor_type, value, device_id)
        result == CheckThresholdsResult(thresholds, sensor_type, value, device_id, dbOk)
    IN  /\ calls < MaxChecks
        /\ calls' = calls + 1
        /\ alerts' = IF result # None THEN Append(alerts, TheValue(result)) ELSE alerts
        /\ lastCall' = [ op |-> "check_thresholds",
                         sensor_type |-> sensor_type,
                         value |-> value,
                         dbOk |-> dbOk,
                         alert_data |-> alert_data,
                         result |-> result,
                         alertsBefore |-> Len(alerts) ]
        /\ UNCHANGED <<thresholds, readings, deviceStates, config, router>>
        /\ UNCHANGED edgeVars
        /\ UNCHANGED restVars
        /\ UNCHANGED threads

-----------------------------------------------------------------------------
(* Message router: src/backend/app/pubnub_handler.py, with                 *)
(* SensorService.save_reading and SensorReading.from_pubnub_message        *)

ChannelNames == {"smart-home-sensors", "smart-home-control", "smart-home-alerts"}

\* Config as the source's defaults set it
DefaultConfig ==
    [ sensor |-> "smart-home-sensors",
      control |-> "smart-home-control",
      alert |-> "smart-home-alerts" ]

\* Every assignment of names to the three channels (the names come from .env)
Configs == [sensor : ChannelNames, control : ChannelNames, alert : ChannelNames]

\* The messages delivered to the router.  BatchMessage is what the edge poller
\* publishes (read_all_sensors merged with type by publish_sensor_data);
\* SingleMessage is the format create_sensor_message builds.
SingleMessage ==
    ("type" :> "sensor_data") @@ ("device_id" :> "rpi-001") @@
    ("sensor_type" :> "temperature") @@ ("value" :> 315) @@ ("unit" :> "C")
BatchMessage ==
    ("type" :> "sensor_data") @@ ("device_id" :> "rpi-001") @@
    ("temperature" :> 315) @@ ("humidity" :> 500) @@ ("light" :> 3000)
BatchAllMessage ==
    ("type" :> "sensor_data") @@ ("device_id" :> "rpi-001") @@
    ("temperature" :> 200) @@ ("humidity" :> 500) @@ ("light" :> 3000) @@
    ("motion" :> TRUE)
BatchLightMessage ==
    ("type" :> "sensor_data") @@ ("device_id" :> "rpi-001") @@ ("light" :> 400)
EmptyBatchMessage ==
    ("type" :> "sensor_data") @@ ("device_id" :> "rpi-001")
MotionAlertMessage ==
    ("type" :> "alert") @@ ("alert_type" :> "MOTION_DETECTED") @@
    ("severity" :> "info") @@ ("device_id" :> "rpi-001")
AlertNoTypeMessage ==
    ("type" :> "alert") @@ ("severity" :> "warning") @@
    ("sensor_type" :> "temperature") @@ ("value" :> 315)
UntypedSensorMessage ==
    ("device_id" :> "rpi-001") @@
    ("sensor_type" :> "temperature") @@ ("value" :> 315) @@ ("unit" :> "C")
UntypedAlertMessage ==
    ("alert_type" :> "MOTION_DETECTED") @@ ("severity" :> "info")
MistypedSensorMessage ==
    ("type" :> "alert") @@ ("alert_type" :> "HIGH_TEMPERATURE") @@
    ("severity" :> "warning") @@
    ("sensor_type" :> "temperature") @@ ("value" :> 315) @@ ("unit" :> "C")
CommandMessage ==
    ("type" :> "control_command") @@ ("device" :> "led") @@ ("action" :> "on")

Messages ==
    { SingleMessage, BatchMessage, BatchAllMessage, BatchLightMessage,
      EmptyBatchMessage, MotionAlertMessage, AlertNoTypeMessage,
      UntypedSensorMessage, UntypedAlertMessage, MistypedSensorMessage,
      CommandMessage }

\* The sensor fields of a batch (section 6 of the wire format)
BatchFields == {"temperature", "humidity", "light", "motion"}
PopulatedFields(message) == BatchFields \cap DOMAIN message

\* SensorReading.from_pubnub_message: the one row built from a message
ReadingFromMessage(message) ==
    [ sensor_type |-> Get(message, "sensor_type"),
      value |-> Get(message, "value"),
      unit |-> Get(message, "unit"),
      device_id |-> IF "device_id" \in DOMAIN message
                    THEN message["device_id"] ELSE "raspberry_pi_main" ]

\* The commit of a sensor_readings row: sensor_type, value and unit are NOT NULL
ReadingCommits(reading, dbOk) ==
    dbOk /\ reading.sensor_type # None /\ reading.value # None /\ reading.unit # None

\* SensorService.save_reading: Optional[SensorReading]
SaveReading(message, dbOk) ==
    LET reading == ReadingFromMessage(message)
    IN  IF ReadingCommits(reading, dbOk) THEN Some(reading) ELSE None

\* `for r in readings`: what save_reading returned is one SensorReading, a
\* db.Model instance, which defines no __iter__; iterating it raises TypeError.
\* The items of the iteration, or None when the object is not iterable.
IterateReadings(reading) == None

\* The loop over the saved readings: one check_thresholds call per item
RECURSIVE ChecksOf(_)
ChecksOf(items) ==
    IF items = <<>> THEN <<>>
    ELSE <<[sensor_type |-> TheValue(Head(items).sensor_type),
            value |-> TheValue(Head(items).value)]>> \o ChecksOf(Tail(items))

RECURSIVE AlertsOfChecks(_, _, _)
AlertsOfChecks(table, checks, alertOk) ==
    IF checks = <<>> THEN <<>>
    ELSE LET a == CheckThresholdsResult(table, Head(checks).sensor_type,
                                        Head(checks).value, "rpi-001", alertOk)
         IN  (IF a = None THEN <<>> ELSE <<TheValue(a)>>)
             \o AlertsOfChecks(table, Tail(checks), alertOk)

\* TypeMatches with the guard left out
TypeMatchesAnything(message, expected) == TRUE
\* The type guard of the two handlers
TypeMatches(message, expected) == Get(message, "type") = Some(expected)

\* PubNubHandler.handle_sensor_message: what the call did.  saved are the rows
\* committed to sensor_readings, checks the check_thresholds calls made, raised
\* are the alert rows those calls committed; error tells that an exception was
\* caught and logged by the handler's own except clause.  dbOk is the outcome
\* of the commit of the sensor_readings row, alertOk of the commits of alerts.
HandleSensorMessage(table, message, dbOk, alertOk) ==
    IF ~TypeMatches(message, "sensor_data")
    THEN [dropped |-> TRUE, saved |-> <<>>, checks |-> <<>>, raised |-> <<>>,
          error |-> FALSE]
    ELSE LET r == SaveReading(message, dbOk) IN
         IF r = None
         THEN [dropped |-> FALSE, saved |-> <<>>, checks |-> <<>>, raised |-> <<>>,
               error |-> FALSE]
         ELSE LET items == IterateReadings(TheValue(r)) IN
              IF items = None
              THEN [dropped |-> FALSE, saved |-> <<TheValue(r)>>, checks |-> <<>>,
                    raised |-> <<>>, error |-> TRUE]
              ELSE [dropped |-> FALSE, saved |-> <<TheValue(r)>>,
                    checks |-> ChecksOf(TheValue(items)),
                    raised |-> AlertsOfChecks(table, ChecksOf(TheValue(items)),
                                              alertOk),
                    error |-> FALSE]

\* PubNubHandler.handle_alert_message
HandleAlertMessage(message, alertOk) ==
    IF ~TypeMatches(message, "alert")
    THEN [dropped |-> TRUE, saved |-> <<>>, checks |-> <<>>, raised |-> <<>>,
          error |-> FALSE]
    ELSE LET a == SaveAlert(message, alertOk) IN
         [dropped |-> FALSE, saved |-> <<>>, checks |-> <<>>,
          raised |-> IF a = None THEN <<>> ELSE <<TheValue(a)>>,
          error |-> FALSE]

\* ChannelsConflict comparing the wrong pair of channels
ChannelsConflictWrongPair(cfg) == cfg.sensor = cfg.control
\* The check at the head of init_app that refuses to start
ChannelsConflict(cfg) == cfg.sensor = cfg.alert

\* The handlers init_app registers: add_message_handler assigns
\* _message_handlers[channel], the sensor channel first
RegisteredHandlers(cfg) ==
    (cfg.alert :> "handle_alert_message") @@ (cfg.sensor :> "handle_sensor_message")

\* PubNubHandler.init_app.  subOk is whether PubNubService.subscribe went
\* through (it logs and swallows its own errors).
InitApp(subOk) ==
    /\ router.started = "no"
    /\ router' =
         IF ChannelsConflict(config)
         THEN [router EXCEPT !.started = "error"]
         ELSE [ started |-> "ok",
                service |-> TRUE,
                handlers |-> RegisteredHandlers(config),
                subscribed |-> IF subOk THEN {config.sensor, config.alert} ELSE {} ]
    /\ lastCall' = [op |-> "init_app"]
    /\ UNCHANGED <<thresholds, readings, alerts, deviceStates, config, calls>>
    /\ UNCHANGED edgeVars
    /\ UNCHANGED restVars
    /\ UNCHANGED threads

\* How a delivery failed, if it did: the handler dropped the message for its
\* declared type, save_alert refused it for its missing alert_type, or the
\* handler raised and caught an exception
FailureOf(handler, message, did) ==
    (IF did.dropped THEN {"type"} ELSE {}) \cup
    (IF did.error THEN {"raise"} ELSE {}) \cup
    (IF handler = Some("handle_alert_message") /\ ~did.dropped
          /\ ~TruthyStr(Get(message, "alert_type"))
     THEN {"field"} ELSE {})
\* The kinds of failure among the deliveries made so far
FailedSoFar == IF lastCall.op = "deliver" THEN lastCall.failed ELSE {}

\* DefaultCallback.message: an inbound message on a subscribed channel is
\* handed to the handler registered for that channel
Deliver(channel, message, dbOk, alertOk) ==
    /\ router.started = "ok"
    /\ channel \in router.subscribed
    /\ calls < MaxCalls
    /\ calls' = calls + 1
    /\ LET handler == Get(router.handlers, channel)
           did == IF handler = Some("handle_sensor_message")
                  THEN HandleSensorMessage(thresholds, message, dbOk, alertOk)
                  ELSE IF handler = Some("handle_alert_message")
                  THEN HandleAlertMessage(message, alertOk)
                  ELSE [dropped |-> TRUE, saved |-> <<>>, checks |-> <<>>,
                        raised |-> <<>>, error |-> FALSE]
       IN  /\ readings' = readings \o did.saved
           /\ alerts' = alerts \o did.raised
           /\ lastCall' = [ op |-> "deliver",
                            channel |-> channel,
                            handler |-> handler,
                            message |-> message,
                            dbOk |-> dbOk,
                            alertOk |-> alertOk,
                            did |-> did,
                            failed |-> FailedSoFar \cup FailureOf(handler, message, did),
                            readingsBefore |-> Len(readings),
                            alertsBefore |-> Len(alerts) ]
    /\ UNCHANGED <<thresholds, deviceStates, config, router>>
    /\ UNCHANGED edgeVars
    /\ UNCHANGED restVars
    /\ UNCHANGED threads

-----------------------------------------------------------------------------
(* Control synchronizer: src/backend/app/services/control_service.py *)

\* ValidLedActions with an action the LED does not have
ValidLedActionsWithBlink == {"on", "off", "toggle", "blink"}
ValidLedActions == {"on", "off", "toggle"}
ValidBuzzerActions == {"beep", "alarm", "on", "off"}

\* The actions and brightness values the API is called with
Actions == {"on", "off", "toggle", "beep", "alarm", "blink"}
Brightnesses == {0 - 5, 0, 50, 100, 150}

\* A row of device_states as the deployment seeded it
DeviceRow(name, state) ==
    [device_name |-> name, device_type |-> Some("actuator"), state |-> state]

\* The device_states table when the server starts: empty, or one seeded row
\* per device
SeededDeviceStates ==
    { <<>>,
      <<DeviceRow("led", "off"), DeviceRow("buzzer", "off")>>,
      <<DeviceRow("led", "on"), DeviceRow("buzzer", "on")>> }

\* FindDevice with a query that never finds the row
FindDeviceNothing(rows, name) == None
\* DeviceState.query.filter_by(device_name=name).first(): Optional row index
FindDevice(rows, name) ==
    LET found == {i \in 1..Len(rows) : rows[i].device_name = name}
    IN  IF found = {} THEN None
        ELSE Some(CHOOSE i \in found : \A j \in found : i <= j)

\* The commit of a device_states row: device_type is NOT NULL and has no default
DeviceRowCommits(row, dbOk) == dbOk /\ row.device_type # None

\* device_name is UNIQUE: an INSERT is refused while a row of that name exists
DeviceNameFree(rows, device_name) ==
    \A i \in 1..Len(rows) : rows[i].device_name # device_name

\* AssignedState as a compare-and-swap: a row that already holds the target
\* state is flipped back
AssignedStateOpposite(row, state) ==
    IF row.state # state THEN state
    ELSE IF state = "on" THEN "off" ELSE "on"
\* device_state.state = state: the state written is the one the caller
\* resolved, whatever the row holds by now
AssignedState(row, state) == state

\* The second half of _save_device_state, after the query returned `existing`:
\* the table afterwards and whether the row was committed.  A missing row is
\* created as DeviceState(device_name=...), with no device_type.  `parameters`
\* is set on the object but is no column of the table, so it is not part of
\* the row.
CommitDeviceState(rows, existing, device_name, state, dbOk) ==
    IF existing = None
    THEN LET row == [device_name |-> device_name, device_type |-> None,
                     state |-> state]
         IN  IF DeviceRowCommits(row, dbOk) /\ DeviceNameFree(rows, device_name)
             THEN [rows |-> Append(rows, row), ok |-> TRUE]
             ELSE [rows |-> rows, ok |-> FALSE]
    ELSE LET i == TheValue(existing)
             row == [rows[i] EXCEPT !.state = AssignedState(rows[i], state)]
         IN  IF DeviceRowCommits(row, dbOk)
             THEN [rows |-> [rows EXCEPT ![i] = row], ok |-> TRUE]
             ELSE [rows |-> rows, ok |-> FALSE]

\* ControlService._save_device_state run without interruption: the query, then
\* the commit
SaveDeviceState(rows, device_name, state, dbOk) ==
    CommitDeviceState(rows, FindDevice(rows, device_name), device_name, state, dbOk)

\* brightness = max(0, min(100, brightness))
Min(a, b) == IF a <= b THEN a ELSE b
Max(a, b) == IF a >= b THEN a ELSE b
\* ClampBrightness that passes every value through
ClampBrightnessUnbounded(brightness) == brightness
ClampBrightness(brightness) == Max(0, Min(100, brightness))

\* The state recorded for a device: None when it has no row
RecordedState(rows, name) ==
    LET current == FindDevice(rows, name)
    IN  IF current = None THEN None ELSE Some(rows[TheValue(current)].state)

\* ResolveLedState with a toggle that resolves to off when no state is recorded
ResolveLedStateDefaultOn(rows, action) ==
    IF action = "toggle"
    THEN IF RecordedState(rows, "led") = Some("off") THEN "on" ELSE "off"
    ELSE action
\* The state control_led resolves for an action (toggle reads the LED row)
ResolveLedState(rows, action) ==
    IF action = "toggle"
    THEN LET current == FindDevice(rows, "led") IN
         IF current # None /\ rows[TheValue(current)].state = "on"
         THEN "off" ELSE "on"
    ELSE action

\* One side effect of a control call, as a step of the call
SaveStep(device, state, parameters, ok) ==
    [step |-> "save_device_state", device |-> device, state |-> state,
     parameters |-> parameters, ok |-> ok]
PublishStep(channel, message, ok) ==
    [step |-> "publish", channel |-> channel, type |-> message["type"],
     message |-> message, ok |-> ok]

\* The control_command message: carries the action as the caller gave it
LedCommand(action, brightness) ==
    ("type" :> "control_command") @@ ("device" :> "led") @@
    ("action" :> action) @@ ("brightness" :> brightness)
BuzzerCommand(action) ==
    ("type" :> "control_command") @@ ("device" :> "buzzer") @@ ("action" :> action)

\* ControlService._publish_state_change: the state_update message, sent when
\* the bus client exists
StateUpdate(device, state, parameters) ==
    ("type" :> "state_update") @@ ("device" :> device) @@
    ("state" :> state) @@ ("parameters" :> parameters)

PublishStateChange(serviceUp, channel, device, state, parameters, pubOk) ==
    IF serviceUp
    THEN <<PublishStep(channel, StateUpdate(device, state, parameters), pubOk)>>
    ELSE <<>>

\* The command publish of control_led and control_buzzer, made when the bus
\* client exists
PublishCommand(serviceUp, channel, message, pubOk) ==
    IF serviceUp THEN <<PublishStep(channel, message, pubOk)>> ELSE <<>>

\* LedSteps with the command published before the state is saved
LedStepsPublishFirst(save, command, confirm) == command \o save \o confirm
\* The order in which control_led runs its three side effects
LedSteps(save, command, confirm) == save \o command \o confirm

\* BuzzerSteps with the confirmation skipped after a failed command publish
BuzzerStepsStopOnFailure(save, command, confirm) ==
    IF command # <<>> /\ ~command[1].ok
    THEN save \o command ELSE save \o command \o confirm
\* The order in which control_buzzer runs its side effects
BuzzerSteps(save, command, confirm) == save \o command \o confirm

\* The device states control_buzzer records and confirms
BuzzerStateful(action) == action \in {"on", "off"}

\* The structured failure both calls return for an action outside their enum
InvalidAction ==
    [success |-> FALSE, error |-> Some("Invalid action"), state |-> None,
     brightness |-> None]

\* ControlService.control_led(action, brightness) as a function of the
\* device_states table: the table after the call and the record of the call
ControlLedCall(action, brightness, dbOk, pubOk1, pubOk2) ==
    IF action \notin ValidLedActions
    THEN [ rows |-> deviceStates,
           call |-> [ op |-> "control_led", action |-> action,
                      brightness |-> brightness,
                      valid |-> FALSE, steps |-> <<>>,
                      before |-> deviceStates,
                      result |-> InvalidAction ] ]
    ELSE LET clamped == ClampBrightness(brightness)
             final_state == ResolveLedState(deviceStates, action)
             saved == SaveDeviceState(deviceStates, "led", final_state, dbOk)
             steps == LedSteps(
                 <<SaveStep("led", final_state, ("brightness" :> clamped), saved.ok)>>,
                 PublishCommand(router.service, config.control,
                                LedCommand(action, clamped), pubOk1),
                 PublishStateChange(router.service, config.control, "led",
                                    final_state, ("brightness" :> clamped), pubOk2))
         IN  [ rows |-> saved.rows,
               call |-> [ op |-> "control_led", action |-> action,
                          brightness |-> brightness,
                          valid |-> TRUE, steps |-> steps,
                          before |-> deviceStates,
                          result |-> [success |-> TRUE,
                                      error |-> None,
                                      state |-> Some(final_state),
                                      brightness |-> Some(clamped)] ] ]

\* ControlService.control_led(action, brightness)
ControlLed(action, brightness, dbOk, pubOk1, pubOk2) ==
    /\ router.started # "error"
    /\ calls < MaxCalls
    /\ calls' = calls + 1
    /\ LET made == ControlLedCall(action, brightness, dbOk, pubOk1, pubOk2)
       IN  /\ deviceStates' = made.rows
           /\ lastCall' = made.call
    /\ UNCHANGED <<thresholds, readings, alerts, config, router>>
    /\ UNCHANGED edgeVars
    /\ UNCHANGED restVars
    /\ UNCHANGED threads

\* control_led('toggle') as one call of a sequence of toggles, each made when
\* the one before it has returned, with the database accepting every
\* statement.  lastCall.initial is the state recorded when the sequence
\* began and lastCall.returned the states the toggles have returned so far.
ToggleLed(pubOk1, pubOk2) ==
    /\ router.started # "error"
    /\ calls < MaxToggles
    /\ calls' = calls + 1
    /\ LET made == ControlLedCall("toggle", 100, TRUE, pubOk1, pubOk2)
           state == TheValue(made.call.result.state)
           going == lastCall.op = "toggle_led"
       IN  /\ deviceStates' = made.rows
           /\ lastCall' =
                [ op |-> "toggle_led", call |-> made.call,
                  initial |-> IF going THEN lastCall.initial
                              ELSE RecordedState(deviceStates, "led"),
                  returned |-> IF going THEN Append(lastCall.returned, state)
                               ELSE <<state>> ]
    /\ UNCHANGED <<thresholds, readings, alerts, config, router>>
    /\ UNCHANGED edgeVars
    /\ UNCHANGED restVars
    /\ UNCHANGED threads

\* ControlService.control_buzzer(action) as a function of the device_states
\* table: the table after the call and the record of the call
ControlBuzzerCall(action, dbOk, pubOk1, pubOk2) ==
    IF action \notin ValidBuzzerActions
    THEN [ rows |-> deviceStates,
           call |-> [ op |-> "control_buzzer", action |-> action,
                      valid |-> FALSE, steps |-> <<>>,
                      before |-> deviceStates,
                      result |-> InvalidAction ] ]
    ELSE LET saved == IF BuzzerStateful(action)
                      THEN SaveDeviceState(deviceStates, "buzzer", action, dbOk)
                      ELSE [rows |-> deviceStates, ok |-> FALSE]
             steps == BuzzerSteps(
                 IF BuzzerStateful(action)
                 THEN <<SaveStep("buzzer", action, <<>>, saved.ok)>> ELSE <<>>,
                 PublishCommand(router.service, config.control,
                                BuzzerCommand(action), pubOk1),
                 IF BuzzerStateful(action)
                 THEN PublishStateChange(router.service, config.control, "buzzer",
                                         action, <<>>, pubOk2)
                 ELSE <<>>)
         IN  [ rows |-> saved.rows,
               call |-> [ op |-> "control_buzzer", action |-> action,
                          valid |-> TRUE, steps |-> steps,
                          before |-> deviceStates,
                          result |-> [success |-> TRUE,
                                      error |-> None,
                                      state |-> IF BuzzerStateful(action)
                                                THEN Some(action) ELSE None,
                                      brightness |-> None] ] ]

\* ControlService.control_buzzer(action)
ControlBuzzer(action, dbOk, pubOk1, pubOk2) ==
    /\ router.started # "error"
    /\ calls < MaxCalls
    /\ calls' = calls + 1
    /\ LET made == ControlBuzzerCall(action, dbOk, pubOk1, pubOk2)
       IN  /\ deviceStates' = made.rows
           /\ lastCall' = made.call
    /\ UNCHANGED <<thresholds, readings, alerts, config, router>>
    /\ UNCHANGED edgeVars
    /\ UNCHANGED restVars
    /\ UNCHANGED threads

-----------------------------------------------------------------------------
(* Control API: src/backend/app/routes/control_routes.py *)

\* The JSON bodies posted to the two routes: none, one without an action,
\* one with an action alone, one with an action and a brightness
LedBodies ==
    { None, Some(("brightness" :> 50)) }
    \cup { Some(("action" :> action)) : action \in Actions }
    \cup { Some(("action" :> "on") @@ ("brightness" :> 50)) }
BuzzerBodies ==
    { None } \cup { Some(("action" :> action)) : action \in Actions }

\* `if not data or 'action' not in data`
MissingAction(data) ==
    data = None \/ DOMAIN TheValue(data) = {} \/ "action" \notin DOMAIN TheValue(data)

\* Python truthiness of the dict a control call returns
TruthyDict(d) == DOMAIN d # {}

BadRequest == [status |-> 400, body |-> ("error" :> "Missing action")]
ServerError == [status |-> 500, body |-> ("error" :> "Failed to send command")]

\* The response of POST /led to what control_led returned
LedResponse(success, action, brightness) ==
    IF TruthyDict(success)
    THEN [ status |-> 200,
           body |-> [ success |-> TRUE, action |-> action,
                      brightness |-> IF action = "on" THEN Some(brightness)
                                     ELSE None ] ]
    ELSE ServerError

\* The response of POST /buzzer to what control_buzzer returned
BuzzerResponse(success, action) ==
    IF TruthyDict(success)
    THEN [status |-> 200, body |-> [success |-> TRUE, action |-> action]]
    ELSE ServerError

\* POST /led
PostLed(data, dbOk, pubOk) ==
    /\ router.started # "error"
    /\ calls < MaxRequests
    /\ calls' = calls + 1
    /\ IF MissingAction(data)
       THEN /\ lastCall' = [ op |-> "post_led", data |-> data,
                             response |-> BadRequest ]
            /\ UNCHANGED deviceStates
       ELSE LET body == TheValue(data)
                action == body["action"]
                brightness == IF "brightness" \in DOMAIN body
                              THEN body["brightness"] ELSE 100
                made == ControlLedCall(action, brightness, dbOk, pubOk, pubOk)
            IN  /\ deviceStates' = made.rows
                /\ lastCall' = [ op |-> "post_led", data |-> data,
                                 call |-> made.call,
                                 response |-> LedResponse(made.call.result,
                                                          action, brightness) ]
    /\ UNCHANGED <<thresholds, readings, alerts, config, router>>
    /\ UNCHANGED edgeVars
    /\ UNCHANGED restVars
    /\ UNCHANGED threads

\* POST /buzzer
PostBuzzer(data, dbOk, pubOk) ==
    /\ router.started # "error"
    /\ calls < MaxRequests
    /\ calls' = calls + 1
    /\ IF MissingAction(data)
       THEN /\ lastCall' = [ op |-> "post_buzzer", data |-> data,
                             response |-> BadRequest ]
            /\ UNCHANGED deviceStates
       ELSE LET action == TheValue(data)["action"]
                made == ControlBuzzerCall(action, dbOk, pubOk, pubOk)
            IN  /\ deviceStates' = made.rows
                /\ lastCall' = [ op |-> "post_buzzer", data |-> data,
                                 call |-> made.call,
                                 response |-> BuzzerResponse(made.call.result,
                                                             action) ]
    /\ UNCHANGED <<thresholds, readings, alerts, config, router>>
    /\ UNCHANGED edgeVars
    /\ UNCHANGED restVars
    /\ UNCHANGED threads

-----------------------------------------------------------------------------
(* Control synchronizer under concurrent requests.  The server handles each  *)
(* request on a thread of its own and ControlService takes no lock, so two   *)
(* calls interleave at their database operations: the query of the toggle,   *)
(* the query of _save_device_state and its commit.                           *)

ThreadIds == {1, 2}

\* A thread that is in no call.  read is what the toggle's query returned
\* ("unread" when the call made none, "no row" when there is no LED row);
\* raced tells that the toggle read while another toggle had read and not yet
\* committed; found and committed are the outcome of the query and of the
\* commit of _save_device_state; overlap tells that the query ran while the
\* other thread was between the query and the commit of a save for the same
\* device.
IdleThread ==
    [ pc |-> "idle", device |-> "none", action |-> "none", state |-> "none",
      read |-> "unread", raced |-> FALSE, found |-> None, overlap |-> FALSE,
      committed |-> None, result |-> None ]

\* A toggle of thread u has read the LED state and has not committed yet
ToggleInFlight(u) ==
    /\ threads[u].device = "led" /\ threads[u].action = "toggle"
    /\ threads[u].pc \in {"save_query", "save_commit"}

\* control_led up to the call of _save_device_state: the validation and, for a
\* toggle, the query of the current LED row
BeginLed(t, action) ==
    /\ threads[t].pc = "idle"
    /\ calls < MaxThreadCalls
    /\ calls' = calls + 1
    /\ IF action \notin ValidLedActions
       THEN threads' = [threads EXCEPT ![t] =
                [IdleThread EXCEPT !.device = "led", !.action = action,
                                   !.result = Some(InvalidAction)]]
       ELSE LET recorded == RecordedState(deviceStates, "led")
                racing == {u \in ThreadIds \ {t} :
                              action = "toggle" /\ ToggleInFlight(u)}
            IN  threads' = [u \in ThreadIds |->
                    IF u = t
                    THEN [IdleThread EXCEPT
                            !.pc = "save_query",
                            !.device = "led",
                            !.action = action,
                            !.state = ResolveLedState(deviceStates, action),
                            !.read = IF action # "toggle" THEN "unread"
                                     ELSE IF recorded = None THEN "no row"
                                     ELSE TheValue(recorded),
                            !.raced = racing # {}]
                    ELSE IF u \in racing
                    THEN [threads[u] EXCEPT !.raced = TRUE]
                    ELSE threads[u]]
    /\ lastCall' = [op |-> "begin", thread |-> t]
    /\ UNCHANGED <<thresholds, readings, alerts, deviceStates, config, router>>
    /\ UNCHANGED edgeVars
    /\ UNCHANGED restVars

\* control_buzzer up to the call of _save_device_state (beep and alarm make
\* none and go on to the publish)
BeginBuzzer(t, action) ==
    /\ threads[t].pc = "idle"
    /\ calls < MaxThreadCalls
    /\ calls' = calls + 1
    /\ threads' = [threads EXCEPT ![t] =
           IF action \notin ValidBuzzerActions
           THEN [IdleThread EXCEPT !.device = "buzzer", !.action = action,
                                   !.result = Some(InvalidAction)]
           ELSE [IdleThread EXCEPT
                   !.pc = IF BuzzerStateful(action) THEN "save_query" ELSE "publish",
                   !.device = "buzzer",
                   !.action = action,
                   !.state = IF BuzzerStateful(action) THEN action ELSE "none"]]
    /\ lastCall' = [op |-> "begin", thread |-> t]
    /\ UNCHANGED <<thresholds, readings, alerts, deviceStates, config, router>>
    /\ UNCHANGED edgeVars
    /\ UNCHANGED restVars

\* _save_device_state: DeviceState.query.filter_by(device_name=...).first()
SaveQuery(t) ==
    /\ threads[t].pc = "save_query"
    /\ threads' = [threads EXCEPT ![t] =
           [@ EXCEPT !.pc = "save_commit",
                     !.found = FindDevice(deviceStates, threads[t].device),
                     !.overlap = \E u \in ThreadIds \ {t} :
                                    /\ threads[u].pc = "save_commit"
                                    /\ threads[u].device = threads[t].device]]
    /\ lastCall' = [op |-> "save_query", thread |-> t]
    /\ UNCHANGED <<thresholds, readings, alerts, deviceStates, config, router, calls>>
    /\ UNCHANGED edgeVars
    /\ UNCHANGED restVars

\* _save_device_state: the row is added or changed and db.session.commit() runs
SaveCommit(t, dbOk) ==
    /\ threads[t].pc = "save_commit"
    /\ LET saved == CommitDeviceState(deviceStates, threads[t].found,
                                      threads[t].device, threads[t].state, dbOk)
       IN  /\ deviceStates' = saved.rows
           /\ threads' = [threads EXCEPT ![t] =
                  [@ EXCEPT !.pc = "publish", !.committed = Some(saved.ok)]]
    /\ lastCall' = [op |-> "save_commit", thread |-> t, dbOk |-> dbOk,
                    before |-> deviceStates]
    /\ UNCHANGED <<thresholds, readings, alerts, config, router, calls>>
    /\ UNCHANGED edgeVars
    /\ UNCHANGED restVars

\* The rest of the call: the publishes (they leave the table alone) and the
\* return of the success dict
Finish(t) ==
    /\ threads[t].pc = "publish"
    /\ threads' = [threads EXCEPT ![t] =
           [@ EXCEPT !.pc = "idle",
                     !.result = Some([success |-> TRUE, error |-> None,
                                      state |-> IF threads[t].state = "none"
                                                THEN None
                                                ELSE Some(threads[t].state),
                                      brightness |-> None])]]
    /\ lastCall' = [op |-> "finish", thread |-> t]
    /\ UNCHANGED <<thresholds, readings, alerts, deviceStates, config, router, calls>>
    /\ UNCHANGED edgeVars
    /\ UNCHANGED restVars

-----------------------------------------------------------------------------
(* Motion state machine: src/raspberry-pi/sensors/pir_sensor.py *)

DebounceTime == 1       \* DEFAULT_DEBOUNCE_TIME, 0.1 s
MotionTimeout == 50     \* DEFAULT_MOTION_TIMEOUT, 5.0 s
MaxHistory == 100       \* _max_history
\* The time _beep_pattern sleeps: beep_count beeps of beep_duration (0.2 s)
\* with 0.1 s between two beeps
BeepCount == 3
BeepPatternTime == BeepCount * 2 + (BeepCount - 1) * 1

\* The time that passes between two reads: none (a read inside the debounce
\* window), the debounce time, and gaps that end before, exactly at and after
\* the motion timeout
TimeSteps ==
    { 0, DebounceTime, MotionTimeout - BeepPatternTime, MotionTimeout,
      MotionTimeout + 1 }

\* PIRSensor.__init__: the fields after construction.  ready is the outcome of
\* _init_hardware, which sets is_initialised and _calibration_complete together
\* (both are True in simulation mode).
NewPIRSensor(ready) ==
    [ is_initialised |-> ready,
      calibration_complete |-> ready,
      last_motion_time |-> None,
      last_read_time |-> 0,
      last_state |-> FALSE,
      motion_active |-> FALSE,
      total_motion_events |-> 0,
      total_readings |-> 0,
      motion_durations |-> <<>>,
      motion_history |-> <<>> ]

\* AddToHistory with a full history that refuses the new event
AddToHistoryKeepOldest(history, event) ==
    IF Len(history) >= MaxHistory THEN history ELSE Append(history, event)
\* PIRSensor._add_to_history
AddToHistory(history, event) ==
    LET appended == Append(history, event)
    IN  IF Len(appended) > MaxHistory THEN Tail(appended) ELSE appended

\* PIRSensor._on_motion_start: the fields afterwards (the beep pattern and the
\* callback are accounted for in PIRRead)
OnMotionStart(p, timestamp) ==
    [p EXCEPT !.total_motion_events = @ + 1,
              !.motion_active = TRUE,
              !.motion_history =
                  AddToHistory(@, [timestamp |-> timestamp, type |-> "start",
                                   event_number |-> p.total_motion_events + 1])]

\* EndDuration computed from whatever entry is the last one
EndDurationFromAnyEntry(history, timestamp) ==
    IF history # <<>> THEN Some(timestamp - Last(history).timestamp) ELSE Some(0)
\* The duration _on_motion_end computes: only when the last history entry is a
\* start event
EndDuration(history, timestamp) ==
    IF history # <<>> /\ Last(history).type = "start"
    THEN Some(timestamp - Last(history).timestamp)
    ELSE None

\* PIRSensor._on_motion_end
OnMotionEnd(p, timestamp) ==
    LET duration == EndDuration(p.motion_history, timestamp) IN
    [p EXCEPT !.motion_active = FALSE,
              !.motion_durations = IF duration # None
                                   THEN Append(@, TheValue(duration)) ELSE @,
              !.motion_history =
                  AddToHistory(@, [timestamp |-> timestamp, type |-> "end",
                                   duration |-> duration])]

\* The branch of read that starts a motion: the sample is true and the last
\* accepted sample was not
StartsMotion(p, motion) == motion /\ ~p.last_state

\* MotionTimedOut with no grace period: any false sample ends the motion
MotionTimedOutAtOnce(current_time, last_motion_time) ==
    current_time - last_motion_time >= 0
\* time_since_motion > self.motion_timeout
MotionTimedOut(current_time, last_motion_time) ==
    current_time - last_motion_time > MotionTimeout

\* The branch of read that ends a motion: the sample is false, the last
\* accepted sample was true, and the timeout has passed since the last true
\* sample
EndsMotion(p, motion, current_time) ==
    /\ ~StartsMotion(p, motion)
    /\ ~motion /\ p.last_state
    /\ TruthyNum(p.last_motion_time)
    /\ MotionTimedOut(current_time, TheValue(p.last_motion_time))

\* The debounce test of read
Debounced(p, current_time) == current_time - p.last_read_time < DebounceTime

\* The first test of read: the sensor is not initialised or not calibrated
\* NotReady that lets every sensor through
NotReadyNever(p) == FALSE
\* not self.is_initialised or not self._calibration_complete
NotReady(p) == ~p.is_initialised \/ ~p.calibration_complete

\* A callback whose exception leaves the handler that invoked it
CallbackEscapesWhenRaised(raises) == raises
\* The try/except Exception around on_motion_detected() and on_motion_ended():
\* whether an exception of the callback leaves _on_motion_start or
\* _on_motion_end
CallbackEscapes(raises) == FALSE

\* The fields of the sensor when the transition handler of read() has run:
\* _last_read_time is set and _on_motion_start or _on_motion_end has run
AfterTransition(p, motion, current_time) ==
    LET p1 == [p EXCEPT !.last_read_time = current_time]
    IN  IF StartsMotion(p1, motion) THEN OnMotionStart(p1, current_time)
        ELSE IF EndsMotion(p1, motion, current_time)
        THEN OnMotionEnd(p1, current_time)
        ELSE p1

\* The fields of the sensor after read() took the raw sample `motion` at
\* current_time
AfterSample(p, motion, current_time) ==
    LET p2 == AfterTransition(p, motion, current_time)
        p3 == IF motion
              THEN [p2 EXCEPT !.last_motion_time = Some(current_time),
                              !.motion_active = TRUE]
              ELSE p2
    IN  [p3 EXCEPT !.last_state = motion]

\* PIRSensor.read, called `step` after the previous operation returned; motion
\* is the raw sample the GPIO pin (or the simulation) gives if it is taken.
\* Both callbacks are installed; raises tells whether the callback this read
\* invokes raises an exception.  lastCall.previous is what the read before
\* this one returned, when the operation before this one was a read.
PIRRead(step, motion, raises) ==
    /\ calls < MaxReads
    /\ calls' = calls + 1
    /\ LET current_time == now + step
           counted == [pir EXCEPT !.total_readings = @ + 1]
           previous == IF lastCall.op = "read" THEN Some(lastCall.returned) ELSE None
       IN  IF NotReady(counted)
           THEN /\ pir' = counted
                /\ now' = current_time
                /\ lastCall' = [op |-> "read", sampled |-> FALSE, returned |-> None,
                                raised |-> FALSE,
                                before |-> pir, at |-> current_time,
                                callbacksBefore |-> callbacks,
                                fedBefore |-> Len(fed), previous |-> previous]
                /\ UNCHANGED <<fed, callbacks>>
           ELSE IF Debounced(counted, current_time)
           THEN /\ pir' = counted
                /\ now' = current_time
                /\ lastCall' = [op |-> "read", sampled |-> FALSE,
                                returned |-> Some(counted.motion_active),
                                raised |-> FALSE,
                                before |-> pir, at |-> current_time,
                                callbacksBefore |-> callbacks,
                                fedBefore |-> Len(fed), previous |-> previous]
                /\ UNCHANGED <<fed, callbacks>>
           ELSE LET starts == StartsMotion(counted, motion)
                    ends == EndsMotion(counted, motion, current_time)
                    thrown == raises /\ (starts \/ ends)
                    escaped == thrown /\ CallbackEscapes(raises)
                IN  /\ pir' = IF escaped
                              THEN AfterTransition(counted, motion, current_time)
                              ELSE AfterSample(counted, motion, current_time)
                    /\ now' = current_time + (IF starts THEN BeepPatternTime ELSE 0)
                    /\ fed' = Append(fed, <<current_time, motion>>)
                    /\ callbacks' =
                         [ detected |-> callbacks.detected + (IF starts THEN 1 ELSE 0),
                           ended |-> callbacks.ended + (IF ends THEN 1 ELSE 0) ]
                    /\ lastCall' = [op |-> "read", sampled |-> TRUE,
                                    returned |-> IF escaped THEN None ELSE Some(motion),
                                    raised |-> escaped, thrown |-> thrown,
                                    before |-> pir, at |-> current_time,
                                    callbacksBefore |-> callbacks,
                                    fedBefore |-> Len(fed), previous |-> previous]
    /\ UNCHANGED <<thresholds, readings, alerts, deviceStates, config, router>>
    /\ UNCHANGED threads
    /\ UNCHANGED restVars

\* PIRSensor.reset_statistics: the counters, the durations and the history are
\* cleared; the state of the motion machine is left as it is
ResetStatistics ==
    /\ calls < MaxReads
    /\ calls' = calls + 1
    /\ pir' = [pir EXCEPT !.total_motion_events = 0,
                          !.total_readings = 0,
                          !.motion_durations = <<>>,
                          !.motion_history = <<>>]
    /\ lastCall' = [op |-> "reset_statistics"]
    /\ UNCHANGED <<now, fed, callbacks>>
    /\ UNCHANGED <<thresholds, readings, alerts, deviceStates, config, router>>
    /\ UNCHANGED threads
    /\ UNCHANGED restVars

\* The sensor after a long run: n events, a motion of one true sample ended
\* by a false sample just past the timeout, over and over.  The first read is
\* DebounceTime after the start of the clock; a start is followed by the beep
\* pattern and then, MotionTimeout + 1 later, by the false sample that ends
\* the motion; the next true sample comes DebounceTime after that.
MotionPeriod == DebounceTime + BeepPatternTime + MotionTimeout + 1
StartTime(k) == 2 * DebounceTime + MotionPeriod * (k - 1)
EndTime(k) == StartTime(k) + BeepPatternTime + MotionTimeout + 1
EventOfRun(i) ==
    IF i % 2 = 1
    THEN [timestamp |-> StartTime((i + 1) \div 2), type |-> "start",
          event_number |-> (i + 1) \div 2]
    ELSE [timestamp |-> EndTime(i \div 2), type |-> "end",
          duration |-> Some(EndTime(i \div 2) - StartTime(i \div 2))]
LongRunSensor(n) ==
    [ is_initialised |-> TRUE,
      calibration_complete |-> TRUE,
      last_motion_time |-> Some(StartTime((n + 1) \div 2)),
      last_read_time |-> EventOfRun(n).timestamp,
      last_state |-> n % 2 = 1,
      motion_active |-> n % 2 = 1,
      total_motion_events |-> (n + 1) \div 2,
      total_readings |-> n,
      motion_durations |-> [k \in 1..(n \div 2) |-> EndTime(k) - StartTime(k)],
      motion_history |-> [i \in 1..n |-> EventOfRun(i)] ]
\* The clock when the read that made event n has returned
TimeAfterRun(n) ==
    EventOfRun(n).timestamp + (IF n % 2 = 1 THEN BeepPatternTime ELSE 0)

-----------------------------------------------------------------------------
(* DHT22 sensor: src/raspberry-pi/sensors/dht22_sensor.py *)

\* DHT22Sensor.MIN_READ_INTERVAL (2.0 s) and the default delay of
\* read_with_retry (2.0 s)
MinReadInterval == 20
RetryDelay == 20

\* DHT22Sensor.__init__.  hardware is HARDWARE_AVAILABLE; without the library
\* the sensor counts as initialised and simulates.  polls counts the times
\* the probe (or the simulation) was asked for a pair and called is the time
\* of the previous read call; neither is a field of the object.
NewDHT22Sensor(hardware, ready) ==
    [ hardware |-> hardware,
      is_initialised |-> IF hardware THEN ready ELSE TRUE,
      last_temperature |-> None,
      last_humidity |-> None,
      last_read_time |-> 0,
      read_count |-> 0,
      error_count |-> 0,
      polls |-> 0,
      called |-> None ]

\* The pair the probe gives on its k-th poll when that poll works, and the
\* pair the simulation gives: rounded to one decimal, so whole tenths
PairOfPoll(k) == <<200 + k, 500 - k>>

\* The sensor reads the probe (and does not simulate)
HardwareMode(d) == d.hardware /\ d.is_initialised

\* The rate-limiting branch of read that answers from the cache
CacheHit(d, current_time) ==
    /\ current_time - d.last_read_time < MinReadInterval
    /\ d.last_temperature # None /\ d.last_humidity # None

\* DHT22Sensor.read at current_time; ok tells whether the probe gives a pair
\* if it is polled (None values and exceptions are the other outcome)
DHT22ReadResult(d, current_time, ok) ==
    LET asked == [d EXCEPT !.called = Some(current_time)]
    IN  IF CacheHit(d, current_time)
        THEN [ sensor |-> asked,
               reading |-> Some(<<TheValue(d.last_temperature),
                                  TheValue(d.last_humidity)>>) ]
        ELSE LET timed == [asked EXCEPT !.last_read_time = current_time,
                                        !.polls = @ + 1]
                 pair == PairOfPoll(timed.polls)
             IN  IF ~HardwareMode(d)
                 THEN [sensor |-> timed, reading |-> Some(pair)]
                 ELSE IF ok
                 THEN [ sensor |-> [timed EXCEPT !.last_temperature = Some(pair[1]),
                                                 !.last_humidity = Some(pair[2]),
                                                 !.read_count = @ + 1],
                        reading |-> Some(pair) ]
                 ELSE [ sensor |-> [timed EXCEPT !.error_count = @ + 1],
                        reading |-> None ]

\* The retry loop goes on to its last attempt whatever it read
StopsRetryingNever(reading) == FALSE
\* `if reading is not None: return reading` of read_with_retry
StopsRetrying(reading) == reading # None

\* The loop of read_with_retry from attempt number `attempt` on: oks[i] is the
\* outcome of the probe at attempt i, results the value each read call made
\* so far returned
RECURSIVE RetryFrom(_, _, _, _, _, _, _)
RetryFrom(d, time, attempt, max_attempts, delay, oks, results) ==
    IF attempt > max_attempts
    THEN [sensor |-> d, time |-> time, results |-> results, reading |-> None]
    ELSE LET r == DHT22ReadResult(d, time, oks[attempt])
             made == Append(results, r.reading)
         IN  IF StopsRetrying(r.reading)
             THEN [ sensor |-> r.sensor, time |-> time, results |-> made,
                    reading |-> r.reading ]
             ELSE RetryFrom(r.sensor,
                            IF attempt < max_attempts THEN time + delay ELSE time,
                            attempt + 1, max_attempts, delay, oks, made)

\* DHT22Sensor.read_with_retry(max_attempts, delay) called at current_time
ReadWithRetryResult(d, current_time, max_attempts, delay, oks) ==
    RetryFrom(d, current_time, 1, max_attempts, delay, oks, <<>>)

\* DHT22Sensor.read, called `step` after the previous operation returned
DHT22Read(step, ok) ==
    /\ calls < MaxSensorCalls
    /\ calls' = calls + 1
    /\ LET r == DHT22ReadResult(dht, now + step, ok)
       IN  /\ dht' = r.sensor
           /\ now' = now + step
           /\ lastCall' = [ op |-> "dht22_read", at |-> now + step, ok |-> ok,
                            before |-> dht, returned |-> r.reading ]
    /\ UNCHANGED <<thresholds, readings, alerts, deviceStates, config, router>>
    /\ UNCHANGED <<pir, fed, callbacks, threads, controller, pubnub>>

\* DHT22Sensor.read_with_retry with the default delay, called `step` after
\* the previous operation returned
DHT22ReadWithRetry(step, max_attempts, oks) ==
    /\ calls < MaxSensorCalls
    /\ calls' = calls + 1
    /\ LET r == ReadWithRetryResult(dht, now + step, max_attempts, RetryDelay, oks)
       IN  /\ dht' = r.sensor
           /\ now' = r.time
           /\ lastCall' = [ op |-> "read_with_retry", at |-> now + step,
                            max_attempts |-> max_attempts, oks |-> oks,
                            before |-> dht, results |-> r.results,
                            returned |-> r.reading ]
    /\ UNCHANGED <<thresholds, readings, alerts, deviceStates, config, router>>
    /\ UNCHANGED <<pir, fed, callbacks, threads, controller, pubnub>>

-----------------------------------------------------------------------------
(* Edge controller: src/raspberry-pi/main.py *)

\* settings.SENSOR_READ_INTERVAL (5 s) and the attempts read_all_sensors
\* gives the DHT22 sensor
ReadInterval == 50
BatchAttempts == 2
AlarmBeeps == 5

DeviceId == "raspberry_pi_main"
DeviceLocation == "living_room"
SensorChannel == "smart-home-sensors"
ControlChannel == "smart-home-control"

\* The output pins after PIRSensor.__init__.  available is HARDWARE_AVAILABLE;
\* led_out says that the LED pin is set up as an output, pwm that the buzzer's
\* PWM object exists and pwm_running that it has been started and not stopped.
\* led and buzzer are what the two parts do, which no field of the object
\* records.  A set-up that fails leaves the sensor uninitialised and no pin
\* set up.
Board(available, ready) ==
    [ available |-> available,
      led_out |-> available /\ ready,
      pwm |-> available /\ ready,
      pwm_running |-> available /\ ready,
      led |-> "off",
      buzzer |-> "off" ]

\* PIRSensor._led_on, _led_off, _buzzer_on, _buzzer_off: a GPIO call on a pin
\* that is not set up raises, and the bare except swallows it
LedOn(g) == IF g.available /\ g.led_out THEN [g EXCEPT !.led = "on"] ELSE g
LedOff(g) == IF g.available /\ g.led_out THEN [g EXCEPT !.led = "off"] ELSE g
BuzzerOn(g) == IF g.pwm /\ g.pwm_running THEN [g EXCEPT !.buzzer = "on"] ELSE g
BuzzerOff(g) == IF g.pwm THEN [g EXCEPT !.buzzer = "off"] ELSE g

\* PIRSensor._beep, and n of them one after the other (_beep_pattern, the
\* alarm of handle_control_command)
Beep(g) == LedOff(BuzzerOff(BuzzerOn(LedOn(g))))
RECURSIVE Beeps(_, _)
Beeps(g, n) == IF n = 0 THEN g ELSE Beeps(Beep(g), n - 1)

\* The first half of PIRSensor.cleanup: buzzer and LED are switched off
QuietOutputs(p, g) ==
    IF g.available /\ p.is_initialised THEN LedOff(BuzzerOff(g)) ELSE g

\* ReleasePins that leaves the pins driven as they are
ReleasePinsKeepLevels(p, g) ==
    IF g.available /\ p.is_initialised
    THEN [g EXCEPT !.pwm_running = FALSE, !.led_out = FALSE]
    ELSE g
\* The second half of PIRSensor.cleanup: the PWM is stopped and GPIO.cleanup
\* turns the three pins back into inputs, which drive nothing
ReleasePins(p, g) ==
    IF g.available /\ p.is_initialised
    THEN [g EXCEPT !.pwm_running = FALSE, !.buzzer = "off",
                   !.led_out = FALSE, !.led = "off"]
    ELSE g

\* SmartHomeController.__init__: the control channel is subscribed, the loop
\* is not running yet.  sent is what was handed to PubNub for publishing,
\* delivered how many of these the bus has brought to the server,
\* commands counts the control commands handled, cause is what ended the loop
\* and found is what the outputs did when cleanup began.
NewController(board) ==
    [ running |-> FALSE,
      phase |-> "created",
      subscribed |-> {ControlChannel},
      publish_count |-> 0,
      error_count |-> 0,
      sent |-> <<>>,
      gpio |-> board,
      commands |-> 0,
      cause |-> "none",
      found |-> None,
      cleanups |-> 0,
      delivered |-> 0 ]

\* PIRSensor.read as a function: the sensor after the call, what it returned,
\* whether a motion started or ended and the time when it returned
PIRReadResult(p, current_time, motion) ==
    LET counted == [p EXCEPT !.total_readings = @ + 1]
        quiet == [starts |-> FALSE, ends |-> FALSE, sampled |-> FALSE,
                  time |-> current_time]
    IN  IF NotReady(counted)
        THEN [sensor |-> counted, returned |-> None] @@ quiet
        ELSE IF Debounced(counted, current_time)
        THEN [sensor |-> counted, returned |-> Some(counted.motion_active)] @@ quiet
        ELSE LET starts == StartsMotion(counted, motion)
             IN  [ sensor |-> AfterSample(counted, motion, current_time),
                   returned |-> Some(motion),
                   starts |-> starts,
                   ends |-> EndsMotion(counted, motion, current_time),
                   sampled |-> TRUE,
                   time |-> current_time + (IF starts THEN BeepPatternTime ELSE 0) ]

\* LightSensor.read: a lux value, or None when the ADC gives nothing
LuxOfPoll(k) == 3000 + k
LightRead(lightOk, k) == IF lightOk THEN Some(LuxOfPoll(k)) ELSE None

\* The dict read_all_sensors builds from what the three sensors returned
Batch(timestamp, reading, light, motion) ==
    LET base == ("device_id" :> DeviceId) @@ ("location" :> DeviceLocation) @@
                ("timestamp" :> timestamp)
        climate == IF reading # None
                   THEN ("temperature" :> TheValue(reading)[1]) @@
                        ("humidity" :> TheValue(reading)[2])
                   ELSE <<>>
        lux == IF light # None THEN ("light" :> TheValue(light)) ELSE <<>>
        moving == IF motion = Some(TRUE) THEN ("motion" :> TRUE) ELSE <<>>
    IN  base @@ climate @@ lux @@ moving

\* The motion alert _on_motion_detected publishes
MotionAlert(timestamp) ==
    [ type |-> "alert", alert_type |-> "MOTION_DETECTED", severity |-> "info",
      message |-> "Motion detected in living room", device_id |-> DeviceId,
      location |-> DeviceLocation, timestamp |-> timestamp ]

\* PublishesBatch that holds back a batch with a sensor missing
PublishesBatchOnlyComplete(data) ==
    {"temperature", "humidity", "light"} \subseteq DOMAIN data
\* `if sensor_data:` of run: a dict that is not empty
PublishesBatch(data) == DOMAIN data # {}

\* publish_sensor_data: the message handed to PubNub and the two counters
PublishSensorData(c, data, pubOk) ==
    [c EXCEPT !.sent = Append(@, [ channel |-> SensorChannel,
                                   message |-> ("type" :> "sensor_data") @@ data ]),
              !.publish_count = IF pubOk THEN @ + 1 ELSE @,
              !.error_count = IF pubOk THEN @ ELSE @ + 1]

\* SmartHomeController.run up to its loop
Run ==
    /\ controller.phase = "created"
    /\ controller' = [controller EXCEPT !.running = TRUE, !.phase = "looping"]
    /\ lastCall' = [op |-> "run"]
    /\ UNCHANGED <<thresholds, readings, alerts, deviceStates, config, router>>
    /\ UNCHANGED <<calls, pir, now, fed, callbacks, threads, dht, pubnub>>

\* One iteration of the loop of run, `step` after the previous one: the
\* sensors are read (read_all_sensors), the batch is published, the loop goes
\* to sleep.  oks are the outcomes of the DHT22 probe, lightOk that of the ADC,
\* motion the sample of the PIR pin, pubOk that of the publish call.
RunIteration(step, oks, lightOk, motion, pubOk) ==
    /\ controller.phase = "looping" /\ controller.running
    /\ calls < MaxIterations
    /\ calls' = calls + 1
    /\ LET timestamp == now + step
           climate == ReadWithRetryResult(dht, timestamp, BatchAttempts,
                                          RetryDelay, oks)
           light == LightRead(lightOk, calls + 1)
           moved == PIRReadResult(pir, climate.time, motion)
           data == Batch(timestamp, climate.reading, light, moved.returned)
           beeped == IF moved.starts
                     THEN [controller EXCEPT
                             !.gpio = Beeps(@, BeepCount),
                             !.sent = Append(@, [ channel |-> SensorChannel,
                                                  message |-> MotionAlert(moved.time) ])]
                     ELSE controller
       IN  /\ dht' = climate.sensor
           /\ pir' = moved.sensor
           /\ now' = moved.time
           /\ fed' = IF moved.sampled
                     THEN Append(fed, <<climate.time, motion>>) ELSE fed
           /\ callbacks' = [callbacks EXCEPT
                              !.detected = @ + (IF moved.starts THEN 1 ELSE 0)]
           /\ controller' = IF PublishesBatch(data)
                            THEN PublishSensorData(beeped, data, pubOk)
                            ELSE beeped
           /\ lastCall' = [ op |-> "run_iteration", at |-> timestamp,
                            reading |-> climate.reading, light |-> light,
                            motion |-> moved.returned, data |-> data,
                            pubOk |-> pubOk,
                            sentBefore |-> Len(controller.sent) ]
    /\ UNCHANGED <<thresholds, readings, alerts, deviceStates, config, router>>
    /\ UNCHANGED <<threads, pubnub>>

\* The messages that arrive on the control channel
EdgeCommands ==
    { [type |-> "control_command", device |-> device, action |-> action] :
        device \in {"led", "buzzer"},
        action \in {"on", "off", "toggle", "beep", "alarm"} }
    \cup { [type |-> "state_update", device |-> "led", action |-> "on"] }

\* A payload that is not a dict: message.get raises AttributeError inside the
\* try of handle_control_command
NotADict == ("payload" :> "text")
HandlerError(message) == message = NotADict

\* What the listener of the edge controller can be given: the commands, a
\* command for a device or with an action the controller does not know, the
\* command and the confirmation the server publishes for control_led('on'),
\* and a payload that is not a dict
EdgeMessages ==
    EdgeCommands
    \cup { [type |-> "control_command", device |-> "fan", action |-> "on"],
           [type |-> "control_command", device |-> "led", action |-> "blink"],
           [type |-> "control_command", device |-> "buzzer", action |-> "toggle"],
           LedCommand("on", 100),
           StateUpdate("led", "off", ("brightness" :> 100)),
           StateUpdate("buzzer", "on", <<>>),
           NotADict }
ListenerChannels == {ControlChannel, SensorChannel}

\* The type test that lets every message through
IsControlCommandAnyType(message) == TRUE
\* The type test of handle_control_command
IsControlCommand(message) == Get(message, "type") = Some("control_command")

\* What handle_control_command does to the outputs
CommandEffect(g, message) ==
    LET device == Get(message, "device")
        action == Get(message, "action")
    IN  IF HandlerError(message) \/ ~IsControlCommand(message) THEN g
        ELSE IF device = Some("buzzer")
        THEN CASE action = Some("beep") -> Beeps(g, BeepCount)
               [] action = Some("on") -> BuzzerOn(g)
               [] action = Some("off") -> BuzzerOff(g)
               [] action = Some("alarm") -> Beeps(g, AlarmBeeps)
               [] OTHER -> g
        ELSE IF device = Some("led")
        THEN CASE action = Some("on") -> LedOn(g)
               [] action = Some("off") -> LedOff(g)
               [] action = Some("toggle") -> LedOff(LedOn(g))
               [] OTHER -> g
        ELSE g

\* PubNubListener.message on the subscriber thread: a message of the control
\* channel is given to handle_control_command, which publishes nothing and
\* logs every exception; the listener logs what is raised in itself
ControlCommand(channel, message) ==
    /\ ControlChannel \in controller.subscribed
    /\ controller.phase # "exited"
    /\ controller.commands < MaxCommands
    /\ controller' = [controller EXCEPT
                        !.gpio = IF channel = ControlChannel
                                 THEN CommandEffect(@, message) ELSE @,
                        !.commands = @ + 1]
    /\ lastCall' = [ op |-> "control_command", channel |-> channel,
                     message |-> message,
                     gpioBefore |-> controller.gpio,
                     sentBefore |-> Len(controller.sent),
                     logged |-> channel = ControlChannel /\ HandlerError(message),
                     raised |-> FALSE ]
    /\ UNCHANGED <<thresholds, readings, alerts, deviceStates, config, router>>
    /\ UNCHANGED <<calls, pir, now, fed, callbacks, threads, dht, pubnub>>

\* The outputs after the listener was given, in order, the messages that the
\* steps of a server call published on the control channel
RECURSIVE Delivered(_, _, _)
Delivered(g, steps, i) ==
    IF i > Len(steps) THEN g
    ELSE IF steps[i].step = "publish" /\ steps[i].ok
            /\ steps[i].channel = ControlChannel
    THEN Delivered(CommandEffect(g, steps[i].message), steps, i + 1)
    ELSE Delivered(g, steps, i + 1)

\* The commands of the server that set or flip a device state
StateCommands ==
    { <<"led", action>> : action \in {"on", "off", "toggle"} }
    \cup { <<"buzzer", action>> : action \in {"on", "off"} }

\* One command from the server to the edge device: control_led or
\* control_buzzer persists the state and publishes the command and the
\* confirmation, PubNub delivers both in order to the listener of the edge
\* controller, which handles them before the next command is sent
CommandRoundTrip(device, action) ==
    /\ router.service
    /\ ControlChannel \in controller.subscribed
    /\ controller.phase # "exited"
    /\ controller.commands < MaxCommands
    /\ LET made == IF device = "led"
                   THEN ControlLedCall(action, 100, TRUE, TRUE, TRUE)
                   ELSE ControlBuzzerCall(action, TRUE, TRUE, TRUE)
       IN  /\ made.call.valid
           /\ \E i \in 1..Len(made.call.steps) :
                  made.call.steps[i].step = "save_device_state"
                    /\ made.call.steps[i].ok
           /\ deviceStates' = made.rows
           /\ controller' = [controller EXCEPT
                               !.gpio = Delivered(@, made.call.steps, 1),
                               !.commands = @ + 1]
           /\ lastCall' = [ op |-> "command_round_trip", device |-> device,
                            action |-> action, call |-> made.call,
                            gpioBefore |-> controller.gpio ]
    /\ UNCHANGED <<thresholds, readings, alerts, config, router>>
    /\ UNCHANGED <<calls, pir, now, fed, callbacks, threads, dht, pubnub>>

\* The bus brings the next message the edge controller published to the
\* server: DefaultCallback.message gives it to the handler PubNubHandler
\* registered for its channel, with the database accepting every statement
BusDelivery ==
    /\ router.started = "ok"
    /\ controller.delivered < Len(controller.sent)
    /\ LET next == controller.sent[controller.delivered + 1]
           handler == Get(router.handlers, next.channel)
           did == IF handler = Some("handle_sensor_message")
                  THEN HandleSensorMessage(thresholds, next.message, TRUE, TRUE)
                  ELSE IF handler = Some("handle_alert_message")
                  THEN HandleAlertMessage(next.message, TRUE)
                  ELSE [dropped |-> TRUE, saved |-> <<>>, checks |-> <<>>,
                        raised |-> <<>>, error |-> FALSE]
       IN  /\ next.channel \in router.subscribed
           /\ readings' = readings \o did.saved
           /\ alerts' = alerts \o did.raised
           /\ controller' = [controller EXCEPT !.delivered = @ + 1]
           /\ lastCall' = [ op |-> "bus_delivery", channel |-> next.channel,
                            handler |-> handler, message |-> next.message,
                            did |-> did, alertsBefore |-> Len(alerts) ]
    /\ UNCHANGED <<thresholds, deviceStates, config, router>>
    /\ UNCHANGED <<calls, pir, now, fed, callbacks, threads, dht, pubnub>>

\* The loop ends, by a stop signal (the signal handler of main calls cleanup
\* and then sys.exit, in the loop's sleep or anywhere else) or by an
\* exception in the loop (the finally clause of run calls cleanup): cleanup
\* as far as the pause inside PIRSensor.cleanup
BeginCleanup(cause) ==
    /\ controller.phase = "looping"
    /\ controller' = [controller EXCEPT
                        !.running = FALSE,
                        !.phase = "quieted",
                        !.cause = cause,
                        !.found = Some([led |-> controller.gpio.led,
                                        buzzer |-> controller.gpio.buzzer]),
                        !.gpio = QuietOutputs(pir, @)]
    /\ lastCall' = [op |-> "cleanup"]
    /\ UNCHANGED <<thresholds, readings, alerts, deviceStates, config, router>>
    /\ UNCHANGED <<calls, pir, now, fed, callbacks, threads, dht, pubnub>>

\* PIRSensor.cleanup after its pause
ReleaseOutputs ==
    /\ controller.phase = "quieted"
    /\ controller' = [controller EXCEPT
                        !.phase = "released",
                        !.gpio = ReleasePins(pir, @)]
    /\ lastCall' = [op |-> "cleanup"]
    /\ UNCHANGED <<thresholds, readings, alerts, deviceStates, config, router>>
    /\ UNCHANGED <<calls, pir, now, fed, callbacks, threads, dht, pubnub>>

\* The rest of cleanup (unsubscribe_all, stop) and the exit of the process;
\* after a stop signal sys.exit makes the finally clause of run go through
\* cleanup a second time
FinishCleanup ==
    /\ controller.phase = "released"
    /\ LET again == controller.cause = "signal"
           gpio == IF again
                   THEN ReleasePins(pir, QuietOutputs(pir, controller.gpio))
                   ELSE controller.gpio
       IN  controller' = [controller EXCEPT
                            !.phase = "exited",
                            !.subscribed = {},
                            !.gpio = gpio,
                            !.cleanups = IF again THEN 2 ELSE 1]
    /\ lastCall' = [op |-> "exit"]
    /\ UNCHANGED <<thresholds, readings, alerts, deviceStates, config, router>>
    /\ UNCHANGED <<calls, pir, now, fed, callbacks, threads, dht, pubnub>>

-----------------------------------------------------------------------------
(* PubNub service: src/backend/app/services/pubnub_service.py *)

\* PubNubService.__init__: no handler, no listener, no subscription.
\* listeners is the number of DefaultCallback objects given to add_listener,
\* sent the messages handed to the PubNub publish call.
NewPubNubService ==
    [ handlers |-> <<>>,
      listeners |-> 0,
      subscribed |-> {},
      is_subscribed |-> FALSE,
      sent |-> <<>> ]

ServiceChannels == {"smart-home-sensors", "smart-home-alerts"}
ServiceHandlers == {"handle_sensor_message", "handle_alert_message"}

\* WithTimestamp that stamps every message anew
WithTimestampAlways(message, time) ==
    [k \in DOMAIN message \cup {"timestamp"} |->
        IF k = "timestamp" THEN time ELSE message[k]]
\* `if 'timestamp' not in message: message['timestamp'] = ...` of publish
WithTimestamp(message, time) ==
    IF "timestamp" \in DOMAIN message
    THEN message
    ELSE message @@ ("timestamp" :> time)

\* The outcomes of the PubNub publish call: no error, an error status, an
\* exception
PublishOutcomes == {"ok", "error_status", "exception"}

\* The messages given to publish: one with a timestamp of its own, one without
ServiceMessages ==
    { ("type" :> "control_command") @@ ("device" :> "led") @@ ("action" :> "on"),
      ("type" :> "state_update") @@ ("device" :> "led") @@ ("state" :> "on") @@
          ("timestamp" :> 0) }

\* What publish returns: False from the except clause, False for an error
\* status, True otherwise
PublishResult(outcome) ==
    IF outcome = "exception" THEN FALSE
    ELSE IF outcome = "error_status" THEN FALSE
    ELSE TRUE

\* PubNubService.publish
ServicePublish(channel, message, outcome) ==
    /\ calls < MaxServiceCalls
    /\ calls' = calls + 1
    /\ LET stamped == WithTimestamp(message, now)
       IN  /\ pubnub' = [pubnub EXCEPT
                           !.sent = Append(@, [channel |-> channel,
                                               message |-> stamped])]
           /\ lastCall' = [ op |-> "publish", channel |-> channel,
                            message |-> message, outcome |-> outcome,
                            sentBefore |-> Len(pubnub.sent),
                            raised |-> FALSE,
                            returned |-> PublishResult(outcome) ]
    /\ UNCHANGED <<thresholds, readings, alerts, deviceStates, config, router>>
    /\ UNCHANGED <<pir, now, fed, callbacks, threads, dht, controller>>

\* PubNubService.add_message_handler
AddMessageHandler(channel, handler) ==
    /\ calls < MaxServiceCalls
    /\ calls' = calls + 1
    /\ pubnub' = [pubnub EXCEPT
                    !.handlers = (channel :> handler) @@ pubnub.handlers]
    /\ lastCall' = [ op |-> "add_message_handler", channel |-> channel,
                     handler |-> handler ]
    /\ UNCHANGED <<thresholds, readings, alerts, deviceStates, config, router>>
    /\ UNCHANGED <<pir, now, fed, callbacks, threads, dht, controller>>

\* PubNubService.subscribe with the default callback: a new DefaultCallback
\* is added to the listeners of the client, then the channels are
\* subscribed; ok is FALSE when the subscribe call raises
ServiceSubscribe(channels, ok) ==
    /\ calls < MaxServiceCalls
    /\ calls' = calls + 1
    /\ pubnub' = [pubnub EXCEPT
                    !.listeners = @ + 1,
                    !.subscribed = IF ok THEN @ \cup channels ELSE @,
                    !.is_subscribed = IF ok THEN TRUE ELSE @]
    /\ lastCall' = [op |-> "subscribe", channels |-> channels, ok |-> ok]
    /\ UNCHANGED <<thresholds, readings, alerts, deviceStates, config, router>>
    /\ UNCHANGED <<pir, now, fed, callbacks, threads, dht, controller>>

\* DefaultCallback.message of one listener: the handlers it invokes
Dispatch(handlers, channel) ==
    IF channel \in DOMAIN handlers THEN <<handlers[channel]>> ELSE <<>>

\* The handlers n listeners invoke for one message, one listener after the
\* other
RECURSIVE Announce(_, _, _)
Announce(handlers, channel, n) ==
    IF n = 0 THEN <<>>
    ELSE Announce(handlers, channel, n - 1) \o Dispatch(handlers, channel)

\* A message arrives on a subscribed channel: the client gives it to every
\* listener
ServiceReceive(channel) ==
    /\ calls < MaxServiceCalls
    /\ calls' = calls + 1
    /\ channel \in pubnub.subscribed
    /\ lastCall' = [ op |-> "message", channel |-> channel,
                     invoked |-> Announce(pubnub.handlers, channel,
                                          pubnub.listeners) ]
    /\ UNCHANGED <<thresholds, readings, alerts, deviceStates, config, router>>
    /\ UNCHANGED <<pir, now, fed, callbacks, threads, dht, controller, pubnub>>

\* The readings given to create_sensor_message
WireDeviceIds == {"rpi-001", "raspberry_pi_main"}
WireUnits == {"C", "%"}
WireLocations == {None, Some("kitchen")}

\* CreateSensorMessage that leaves out a value that is falsy
CreateSensorMessageTruthyValue(device_id, sensor_type, value, unit, location, time) ==
    ("type" :> "sensor_data") @@ ("device_id" :> device_id) @@
    ("sensor_type" :> sensor_type) @@
    (IF value # 0 THEN ("value" :> value) ELSE <<>>) @@ ("unit" :> unit) @@
    ("location" :> location) @@ ("timestamp" :> time)
\* create_sensor_message: the wire envelope of one reading (location is an
\* Optional, stored as it is; the metadata are left out)
CreateSensorMessage(device_id, sensor_type, value, unit, location, time) ==
    ("type" :> "sensor_data") @@ ("device_id" :> device_id) @@
    ("sensor_type" :> sensor_type) @@ ("value" :> value) @@ ("unit" :> unit) @@
    ("location" :> location) @@ ("timestamp" :> time)

\* A reading is encoded with create_sensor_message
EncodeReading(device_id, sensor_type, value, unit, location) ==
    /\ lastCall' = [ op |-> "create_sensor_message",
                     given |-> [ device_id |-> device_id,
                                 sensor_type |-> sensor_type,
                                 value |-> value, unit |-> unit ],
                     message |-> CreateSensorMessage(device_id, sensor_type,
                                                     value, unit, location, now) ]
    /\ UNCHANGED <<thresholds, readings, alerts, deviceStates, config, router>>
    /\ UNCHANGED <<calls, threads>>
    /\ UNCHANGED edgeVars
    /\ UNCHANGED restVars

\* The envelope made last is parsed with SensorReading.from_pubnub_message
DecodeReading ==
    /\ lastCall.op = "create_sensor_message"
    /\ lastCall' = [ op |-> "from_pubnub_message",
                     given |-> lastCall.given,
                     message |-> lastCall.message,
                     reading |-> ReadingFromMessage(lastCall.message) ]
    /\ UNCHANGED <<thresholds, readings, alerts, deviceStates, config, router>>
    /\ UNCHANGED <<calls, threads>>
    /\ UNCHANGED edgeVars
    /\ UNCHANGED restVars

-----------------------------------------------------------------------------
(* Specifications *)

ServerInit(tables, configs, seeds) ==
    /\ thresholds \in tables
    /\ config \in configs
    /\ deviceStates \in seeds
    /\ readings = <<>>
    /\ alerts = <<>>
    /\ router = [started |-> "no", service |-> FALSE, handlers |-> <<>>,
                 subscribed |-> {}]
    /\ lastCall = [op |-> "none"]
    /\ calls = 0
    /\ threads = [t \in ThreadIds |-> IdleThread]

\* How the DHT22 sensor can come up: no library (simulation), library with
\* the probe set up, library with the set-up failed (simulation)
DHT22Sensors ==
    { NewDHT22Sensor(FALSE, TRUE), NewDHT22Sensor(TRUE, TRUE),
      NewDHT22Sensor(TRUE, FALSE) }

RestInit(sensors) ==
    /\ dht \in sensors
    /\ controller = NewController(Board(TRUE, TRUE))
    /\ pubnub = NewPubNubService

EdgeInit(outcomes) ==
    /\ \E ready \in outcomes : pir = NewPIRSensor(ready)
    /\ now = DebounceTime
    /\ fed = <<>>
    /\ callbacks = [detected |-> 0, ended |-> 0]

\* The whole system: the server as the source's defaults configure it
Init ==
    /\ ServerInit({THRESHOLDS}, Configs, SeededDeviceStates)
    /\ EdgeInit(BOOLEAN)
    /\ RestInit({NewDHT22Sensor(TRUE, TRUE)})

NextAlert ==
    \E sensor_type \in SensorTypes, value \in SensorValues,
       device_id \in DeviceIds, dbOk \in BOOLEAN :
        CheckThresholds(sensor_type, value, device_id, dbOk)

NextRouter ==
    \/ \E subOk \in BOOLEAN : InitApp(subOk)
    \/ \E channel \in ChannelNames, message \in Messages,
          dbOk \in BOOLEAN, alertOk \in BOOLEAN :
        Deliver(channel, message, dbOk, alertOk)

NextControl ==
    \/ \E subOk \in BOOLEAN : InitApp(subOk)
    \/ \E action \in Actions, brightness \in Brightnesses,
          dbOk \in BOOLEAN, pubOk1 \in BOOLEAN, pubOk2 \in BOOLEAN :
        ControlLed(action, brightness, dbOk, pubOk1, pubOk2)
    \/ \E action \in Actions, dbOk \in BOOLEAN, pubOk1 \in BOOLEAN, pubOk2 \in BOOLEAN :
        ControlBuzzer(action, dbOk, pubOk1, pubOk2)

NextPIR ==
    \E step \in TimeSteps, motion \in BOOLEAN, raises \in BOOLEAN :
        PIRRead(step, motion, raises)

NextStatistics == NextPIR \/ ResetStatistics

SensorSteps == {5, MinReadInterval}
NextDHT22 ==
    \/ \E step \in SensorSteps, ok \in BOOLEAN : DHT22Read(step, ok)
    \/ \E step \in SensorSteps, max_attempts \in 1..MaxAttempts :
          \E oks \in [1..max_attempts -> BOOLEAN] :
              DHT22ReadWithRetry(step, max_attempts, oks)

\* The outcomes of the DHT22 probe over the attempts of one iteration
BatchOutcomes == {<<TRUE, TRUE>>, <<FALSE, TRUE>>, <<FALSE, FALSE>>}

NextLoop ==
    \/ Run
    \/ \E oks \in BatchOutcomes, lightOk \in BOOLEAN, motion \in BOOLEAN,
          pubOk \in BOOLEAN :
        RunIteration(ReadInterval, oks, lightOk, motion, pubOk)

NextShutdown ==
    \/ Run
    \/ \E motion \in BOOLEAN, pubOk \in BOOLEAN :
          RunIteration(ReadInterval, <<TRUE, TRUE>>, TRUE, motion, pubOk)
    \/ \E message \in EdgeCommands : ControlCommand(ControlChannel, message)
    \/ \E cause \in {"signal", "error"} : BeginCleanup(cause)
    \/ ReleaseOutputs
    \/ FinishCleanup

NextToggle ==
    \/ \E subOk \in BOOLEAN : InitApp(subOk)
    \/ \E pubOk1 \in BOOLEAN, pubOk2 \in BOOLEAN : ToggleLed(pubOk1, pubOk2)

NextMirror ==
    \/ \E subOk \in BOOLEAN : InitApp(subOk)
    \/ Run
    \/ \E motion \in BOOLEAN, pubOk \in BOOLEAN :
          RunIteration(ReadInterval, <<TRUE, TRUE>>, TRUE, motion, pubOk)
    \/ \E command \in StateCommands : CommandRoundTrip(command[1], command[2])

NextMotionAlert ==
    \/ \E subOk \in BOOLEAN : InitApp(subOk)
    \/ Run
    \/ \E oks \in BatchOutcomes, lightOk \in BOOLEAN, motion \in BOOLEAN :
          RunIteration(ReadInterval, oks, lightOk, motion, TRUE)
    \/ BusDelivery

NextListener ==
    \E channel \in ListenerChannels, message \in EdgeMessages :
        ControlCommand(channel, message)

NextService ==
    \/ \E channel \in ServiceChannels, message \in ServiceMessages,
          outcome \in PublishOutcomes :
        ServicePublish(channel, message, outcome)
    \/ \E channel \in ServiceChannels, handler \in ServiceHandlers :
        AddMessageHandler(channel, handler)
    \/ \E channels \in (SUBSET ServiceChannels) \ {{}}, ok \in BOOLEAN :
        ServiceSubscribe(channels, ok)
    \/ \E channel \in ServiceChannels : ServiceReceive(channel)

NextWire ==
    \/ \E device_id \in WireDeviceIds, sensor_type \in SensorTypes,
          value \in SensorValues, unit \in WireUnits,
          location \in WireLocations :
        EncodeReading(device_id, sensor_type, value, unit, location)
    \/ DecodeReading

NextApi ==
    \/ \E subOk \in BOOLEAN : InitApp(subOk)
    \/ \E data \in LedBodies, dbOk \in BOOLEAN, pubOk \in BOOLEAN :
        PostLed(data, dbOk, pubOk)
    \/ \E data \in BuzzerBodies, dbOk \in BOOLEAN, pubOk \in BOOLEAN :
        PostBuzzer(data, dbOk, pubOk)

NextThreads ==
    \/ \E t \in ThreadIds, action \in Actions : BeginLed(t, action)
    \/ \E t \in ThreadIds, action \in Actions : BeginBuzzer(t, action)
    \/ \E t \in ThreadIds : SaveQuery(t)
    \/ \E t \in ThreadIds, dbOk \in BOOLEAN : SaveCommit(t, dbOk)
    \/ \E t \in ThreadIds : Finish(t)

Next ==
    \/ NextAlert \/ NextRouter \/ NextControl \/ NextThreads \/ NextStatistics
    \/ NextDHT22 \/ NextLoop \/ NextShutdown \/ NextService
    \/ NextWire \/ NextApi \/ NextListener \/ NextToggle
    \/ NextMirror \/ NextMotionAlert

Spec == Init /\ [][Next]_vars

\* The alert engine alone, run with each threshold table
InitAlert ==
    /\ ServerInit(ThresholdTables, {DefaultConfig}, {<<>>})
    /\ EdgeInit({TRUE})
    /\ RestInit({NewDHT22Sensor(TRUE, TRUE)})
SpecAlert == InitAlert /\ [][NextAlert]_vars

\* The router under every channel configuration
InitRouter ==
    /\ ServerInit({THRESHOLDS}, Configs, {<<>>})
    /\ EdgeInit({TRUE})
    /\ RestInit({NewDHT22Sensor(TRUE, TRUE)})
SpecRouter == InitRouter /\ [][NextRouter]_vars

\* The control synchronizer over each seeded device_states table
InitControl ==
    /\ ServerInit({THRESHOLDS}, {DefaultConfig}, SeededDeviceStates)
    /\ EdgeInit({TRUE})
    /\ RestInit({NewDHT22Sensor(TRUE, TRUE)})
SpecControl == InitControl /\ [][NextControl]_vars

\* The control synchronizer toggling the LED over and over
SpecToggle == InitControl /\ [][NextToggle]_vars

\* The control API in front of the control synchronizer
SpecApi == InitControl /\ [][NextApi]_vars

\* The control synchronizer serving two request threads
SpecThreads == InitControl /\ [][NextThreads]_vars

\* The motion sensor alone
InitPIR ==
    /\ ServerInit({THRESHOLDS}, {DefaultConfig}, {<<>>})
    /\ EdgeInit(BOOLEAN)
    /\ RestInit({NewDHT22Sensor(TRUE, TRUE)})
SpecPIR == InitPIR /\ [][NextPIR]_vars

\* The DHT22 sensor alone, in each of its modes
InitDHT22 ==
    /\ ServerInit({THRESHOLDS}, {DefaultConfig}, {<<>>})
    /\ EdgeInit({TRUE})
    /\ RestInit(DHT22Sensors)
SpecDHT22 == InitDHT22 /\ [][NextDHT22]_vars

\* The boards the edge controller can come up on: no GPIO library
\* (simulation), the pins set up, the set-up failed
Boards == {<<FALSE, TRUE>>, <<TRUE, TRUE>>, <<TRUE, FALSE>>}

\* The edge controller after its construction
ControllerInit(sensors, boards) ==
    /\ ServerInit({THRESHOLDS}, {DefaultConfig}, {<<>>})
    /\ \E b \in boards :
           /\ pir = NewPIRSensor(IF b[1] THEN b[2] ELSE TRUE)
           /\ controller = NewController(Board(b[1], b[2]))
    /\ now = DebounceTime
    /\ fed = <<>>
    /\ callbacks = [detected |-> 0, ended |-> 0]
    /\ dht \in sensors
    /\ pubnub = NewPubNubService

\* The polling loop of the edge controller
InitLoop == ControllerInit(DHT22Sensors, {<<TRUE, TRUE>>})
SpecLoop == InitLoop /\ [][NextLoop]_vars

\* The server and the edge device, both actuators recorded and driven off
InitMirror ==
    /\ ServerInit({THRESHOLDS}, {DefaultConfig},
                  {<<DeviceRow("led", "off"), DeviceRow("buzzer", "off")>>})
    /\ EdgeInit({TRUE})
    /\ RestInit({NewDHT22Sensor(TRUE, TRUE)})
SpecMirror == InitMirror /\ [][NextMirror]_vars

\* The edge controller publishing to the server's router; every step that
\* can be taken is taken in the end
SpecMotionAlert ==
    InitMirror /\ [][NextMotionAlert]_vars /\ WF_vars(NextMotionAlert)

\* The listener of the edge controller
SpecListener == InitLoop /\ [][NextListener]_vars

\* The edge controller from its start to the exit of the process
InitShutdown == ControllerInit({NewDHT22Sensor(TRUE, TRUE)}, Boards)
SpecShutdown == InitShutdown /\ [][NextShutdown]_vars

\* The server's PubNubService alone
SpecService == InitAlert /\ [][NextService]_vars

\* Readings encoded into the wire envelope and parsed back
SpecWire == InitAlert /\ [][NextWire]_vars

\* The motion sensor with its statistics reset now and then
SpecStatistics == InitPIR /\ [][NextStatistics]_vars

\* The motion sensor after a long run, its history close to its capacity
InitHistory ==
    /\ ServerInit({THRESHOLDS}, {DefaultConfig}, {<<>>})
    /\ \E n \in (MaxHistory - 2)..MaxHistory :
           /\ pir = LongRunSensor(n)
           /\ now = TimeAfterRun(n)
    /\ fed = <<>>
    /\ callbacks = [detected |-> 0, ended |-> 0]
    /\ RestInit({NewDHT22Sensor(TRUE, TRUE)})
SpecHistory == InitHistory /\ [][NextPIR]_vars

-----------------------------------------------------------------------------
(* Alert engine: properties (SpecAlert) *)

\* The bounds configured for the sensor type of the last check_thresholds call
\* (no bounds for an unknown type)
BoundsOfLastCheck ==
    IF lastCall.sensor_type \in DOMAIN thresholds
    THEN thresholds[lastCall.sensor_type] ELSE <<>>
AboveHigh ==
    "high" \in DOMAIN BoundsOfLastCheck /\ lastCall.value > BoundsOfLastCheck["high"]
BelowLow ==
    "low" \in DOMAIN BoundsOfLastCheck /\ lastCall.value < BoundsOfLastCheck["low"]

\* C1: check_thresholds builds an alert iff the value is strictly above the
\* type's high bound or strictly below its low bound (a value equal to a bound,
\* a missing bound and an unknown type build none); when the commit goes
\* through that alert is returned and is the one row added, so a call adds at
\* most one alert; when both bounds are violated it is the high-breach alert.
C1_AlertIffStrictlyOutside ==
    lastCall.op = "check_thresholds" =>
        /\ (lastCall.alert_data # None) <=> (AboveHigh \/ BelowLow)
        /\ lastCall.dbOk => ((lastCall.result # None) <=> (AboveHigh \/ BelowLow))
        /\ Len(alerts) - lastCall.alertsBefore =
               (IF lastCall.result # None THEN 1 ELSE 0)
        /\ lastCall.result # None => Last(alerts) = TheValue(lastCall.result)
        /\ AboveHigh =>
               /\ TheValue(lastCall.alert_data)["severity"] = "warning"
               /\ TheValue(lastCall.alert_data)["threshold_value"] =
                      BoundsOfLastCheck["high"]
        /\ (BelowLow /\ ~AboveHigh) =>
               /\ TheValue(lastCall.alert_data)["severity"] = "info"
               /\ TheValue(lastCall.alert_data)["threshold_value"] =
                      BoundsOfLastCheck["low"]

\* A call with both bounds violated returned the high-breach alert
C1_Witness ==
    /\ lastCall.op = "check_thresholds"
    /\ AboveHigh /\ BelowLow
    /\ lastCall.result # None
    /\ TheValue(lastCall.result).threshold_value = Some(BoundsOfLastCheck["high"])
    /\ Len(alerts) = lastCall.alertsBefore + 1

\* C17: a persisted threshold alert has severity warning for a high breach and
\* info for a low breach, and records the offending value as its sensor value
\* and the breached bound as its threshold (31.5 against high 30.0: warning,
\* 31.5, 30.0).
C17_SeverityValueThreshold ==
    (lastCall.op = "check_thresholds" /\ lastCall.result # None) =>
        LET alert == TheValue(lastCall.result) IN
        /\ alert.sensor_value = Some(lastCall.value)
        /\ AboveHigh =>
               /\ alert.severity = "warning"
               /\ alert.threshold_value = Some(BoundsOfLastCheck["high"])
        /\ ~AboveHigh =>
               /\ alert.severity = "info"
               /\ alert.threshold_value = Some(BoundsOfLastCheck["low"])

-----------------------------------------------------------------------------
(* Motion state machine: properties (SpecPIR) *)

\* The last operation was a read that took a raw sample
SampledRead == lastCall.op = "read" /\ lastCall.sampled
SampleOfRead == TheValue(lastCall.returned)
\* Events and callbacks of the last read
StartEmitted ==
    /\ pir.total_motion_events = lastCall.before.total_motion_events + 1
    /\ pir.motion_history # <<>> /\ Last(pir.motion_history).type = "start"
    /\ callbacks.detected = lastCall.callbacksBefore.detected + 1
EndEmitted ==
    /\ pir.motion_history # <<>> /\ Last(pir.motion_history).type = "end"
    /\ pir.motion_history # lastCall.before.motion_history
    /\ callbacks.ended = lastCall.callbacksBefore.ended + 1
NoEventEmitted ==
    /\ pir.total_motion_events = lastCall.before.total_motion_events
    /\ pir.motion_history = lastCall.before.motion_history
    /\ callbacks = lastCall.callbacksBefore
\* Time from the last true sample before the last read to that read
SinceLastMotion == lastCall.at - TheValue(lastCall.before.last_motion_time)

\* The index of the last true sample before sample i (0 when there is none)
PreviousTrue(samples, i) ==
    LET earlier == {j \in 1..(i - 1) : samples[j][2]}
    IN  IF earlier = {} THEN 0 ELSE CHOOSE j \in earlier : \A k \in earlier : k <= j
\* The true samples that begin a run: the first true sample, and a true sample
\* that follows a false gap longer than the motion timeout
RunStarts(samples) ==
    {i \in 1..Len(samples) :
        /\ samples[i][2]
        /\ LET j == PreviousTrue(samples, i)
           IN  j = 0 \/ (j < i - 1 /\ samples[i][1] - samples[j][1] > MotionTimeout)}

\* C2: when every read is at least debounce_time after the previous one (each
\* read took a sample), the number of start events equals the number of
\* maximal runs of true samples separated by false gaps longer than
\* motion_timeout; a shorter false gap produces no second start event.
C2_StartsEqualRuns ==
    (pir.is_initialised /\ Len(fed) = pir.total_readings) =>
        pir.total_motion_events = Cardinality(RunStarts(fed))

\* C3: a false sample read while ACTIVE, more than motion_timeout after the
\* last true sample, takes the machine to IDLE: an end event is appended, the
\* motion-ended callback is invoked and motion_active becomes false; also when
\* earlier false samples were read inside the timeout window.
C3_TimeoutEndsMotion ==
    (SampledRead /\ lastCall.before.motion_active /\ ~SampleOfRead
       /\ SinceLastMotion > MotionTimeout) =>
        (~pir.motion_active /\ EndEmitted)

\* C4: a start event is emitted only by a true sample read while IDLE; a true
\* sample read while ACTIVE refreshes the last-motion time and emits no event,
\* so start and end events alternate in the history.
C4_StartOnlyWhenIdle ==
    /\ (SampledRead /\ StartEmitted) =>
           (SampleOfRead /\ ~lastCall.before.motion_active)
    /\ (SampledRead /\ SampleOfRead /\ lastCall.before.motion_active) =>
           (NoEventEmitted /\ pir.last_motion_time = Some(lastCall.at))
    /\ \A i \in 1..(Len(pir.motion_history) - 1) :
           pir.motion_history[i].type # pir.motion_history[i + 1].type

\* C5: a false sample read while ACTIVE, no later than motion_timeout after the
\* last true sample, does not exit ACTIVE: no end event is appended, the
\* motion-ended callback is not invoked and motion_active stays true.
C5_FalseInsideTimeoutKeepsActive ==
    (SampledRead /\ lastCall.before.motion_active /\ ~SampleOfRead
       /\ SinceLastMotion <= MotionTimeout) =>
        /\ pir.motion_active
        /\ pir.motion_history = lastCall.before.motion_history
        /\ pir.motion_durations = lastCall.before.motion_durations
        /\ callbacks.ended = lastCall.callbacksBefore.ended

\* A false sample was read exactly motion_timeout after the last true sample
\* and the machine stayed ACTIVE
C5_Witness ==
    /\ SampledRead /\ lastCall.before.motion_active /\ ~SampleOfRead
    /\ lastCall.before.last_state
    /\ SinceLastMotion = MotionTimeout
    /\ pir.motion_active

-----------------------------------------------------------------------------
(* Message router: properties (SpecRouter) *)

DeliveredOn(channel) == lastCall.op = "deliver" /\ lastCall.channel = channel

\* C6: a valid sensor_data batch yields one persisted Reading per populated
\* sensor field (none when no field is populated) and one threshold check per
\* persisted Reading; the edge poller's batch of temperature, humidity and
\* light yields three.
C6_OneReadingPerField ==
    (DeliveredOn(config.sensor) /\ lastCall.dbOk
       /\ Get(lastCall.message, "type") = Some("sensor_data")
       /\ "sensor_type" \notin DOMAIN lastCall.message) =>
        /\ Len(lastCall.did.saved) = Cardinality(PopulatedFields(lastCall.message))
        /\ Len(readings) - lastCall.readingsBefore =
               Cardinality(PopulatedFields(lastCall.message))
        /\ Len(lastCall.did.checks) = Len(lastCall.did.saved)

\* The declared type of the last delivered message does not fit its channel
Mismatched ==
    \/ DeliveredOn(config.sensor) /\ Get(lastCall.message, "type") # Some("sensor_data")
    \/ DeliveredOn(config.alert) /\ Get(lastCall.message, "type") # Some("alert")

\* C7: a message on the sensor channel whose type is not sensor_data, or on the
\* alert channel whose type is not alert (a missing type included), is dropped
\* whole: no Reading and no Alert is persisted and no threshold check is run.
C7_MismatchDropped ==
    Mismatched =>
        /\ Len(readings) = lastCall.readingsBefore
        /\ Len(alerts) = lastCall.alertsBefore
        /\ lastCall.did.saved = <<>>
        /\ lastCall.did.raised = <<>>
        /\ lastCall.did.checks = <<>>

\* A message that would have made a Reading was dropped on the sensor channel
\* for its type
C7_Witness ==
    /\ DeliveredOn(config.sensor)
    /\ lastCall.dbOk
    /\ lastCall.message \in {MistypedSensorMessage, UntypedSensorMessage}
    /\ lastCall.did.dropped
    /\ Len(readings) = lastCall.readingsBefore

\* C8: the router starts only if the sensor, control and alert channel names
\* are pairwise distinct.
C8_StartRequiresDistinct ==
    router.started = "ok" =>
        /\ config.sensor # config.alert
        /\ config.sensor # config.control
        /\ config.control # config.alert

\* C9: when the sensor channel name equals the alert channel name, init_app
\* raises before a bus client is created, a handler is registered or a channel
\* is subscribed.
C9_SensorAlertClashFailsFast ==
    (config.sensor = config.alert /\ router.started # "no") =>
        /\ router.started = "error"
        /\ ~router.service
        /\ DOMAIN router.handlers = {}
        /\ router.subscribed = {}

\* init_app was called with equal sensor and alert channels and refused
C9_Witness ==
    /\ config.sensor = config.alert
    /\ lastCall.op = "init_app"
    /\ router.started = "error"

\* C18: when persisting a threshold alert fails, no alert is returned or
\* stored and nothing is raised; the router makes the threshold check for
\* every Reading it persisted from the message, whatever became of the alerts
\* of the others.
C18_AlertPersistFailureTolerated ==
    (DeliveredOn(config.sensor) /\ lastCall.did.saved # <<>>) =>
        /\ ~lastCall.did.error
        /\ Len(lastCall.did.checks) = Len(lastCall.did.saved)
        /\ ~lastCall.alertOk =>
               (lastCall.did.raised = <<>> /\ Len(alerts) = lastCall.alertsBefore)

\* C19: no inbound message stops the router.  A message of the wrong type, an
\* alert without alert_type and a message whose handler raises persist no
\* Alert and leave the router started, with its handlers and subscriptions;
\* a valid message is processed whatever was delivered before it.
C19_RouterSurvivesBadMessages ==
    lastCall.op = "deliver" =>
        /\ router.started = "ok" /\ router.service
        /\ router.handlers = RegisteredHandlers(config)
        /\ lastCall.channel \in router.subscribed
        /\ FailureOf(lastCall.handler, lastCall.message, lastCall.did) # {} =>
               Len(alerts) = lastCall.alertsBefore
        /\ lastCall.did.dropped => Len(readings) = lastCall.readingsBefore
        /\ (DeliveredOn(config.alert) /\ Get(lastCall.message, "type") = Some("alert")
              /\ "alert_type" \notin DOMAIN lastCall.message) =>
               (Len(alerts) = lastCall.alertsBefore /\ ~lastCall.did.error)
        /\ (DeliveredOn(config.alert) /\ lastCall.message = MotionAlertMessage
              /\ lastCall.alertOk) =>
               /\ Len(alerts) = lastCall.alertsBefore + 1
               /\ Last(alerts).alert_type = "MOTION_DETECTED"
        /\ (DeliveredOn(config.sensor) /\ lastCall.message = SingleMessage
              /\ lastCall.dbOk) =>
               /\ Len(readings) = lastCall.readingsBefore + 1
               /\ Last(readings).value = Some(315)

\* A valid alert was persisted after a delivery whose handler raised and an
\* alert that lacked its alert_type
C19_Witness ==
    /\ DeliveredOn(config.alert) /\ lastCall.message = MotionAlertMessage
    /\ {"raise", "field"} \subseteq lastCall.failed
    /\ Len(alerts) = lastCall.alertsBefore + 1
    /\ Last(alerts).alert_type = "MOTION_DETECTED"

-----------------------------------------------------------------------------
(* Control synchronizer: properties (SpecControl) *)

\* What each step of the last control call was: the save, or the type of the
\* message published
StepKinds ==
    [i \in 1..Len(lastCall.steps) |->
        IF lastCall.steps[i].step = "publish"
        THEN lastCall.steps[i].type ELSE lastCall.steps[i].step]

ValidControlCall ==
    lastCall.op \in {"control_led", "control_buzzer"} /\ lastCall.valid

NoPublishBeforeSave ==
    \A i \in 1..Len(lastCall.steps) : \A j \in 1..Len(lastCall.steps) :
        (lastCall.steps[i].step = "publish"
           /\ lastCall.steps[j].step = "save_device_state") => j < i

DeviceOfCall == IF lastCall.op = "control_led" THEN "led" ELSE "buzzer"
SaveOfCall == lastCall.steps[1]
CallSaved == lastCall.steps # <<>> /\ lastCall.steps[1].step = "save_device_state"
\* The state confirmations the last control call published
Confirmations ==
    {i \in 1..Len(lastCall.steps) :
        lastCall.steps[i].step = "publish" /\ lastCall.steps[i].type = "state_update"}

\* C11: control_led('toggle') resolves the opposite of the LED state recorded
\* when it is called: off when that state is on, on in every other case (no
\* recorded state included); the resolved state is the one it saves, confirms
\* and returns.
C11_ToggleResolvesOpposite ==
    (lastCall.op = "control_led" /\ lastCall.valid /\ lastCall.action = "toggle") =>
        LET target == IF RecordedState(lastCall.before, "led") = Some("on")
                      THEN "off" ELSE "on"
        IN  /\ lastCall.result.state = Some(target)
            /\ SaveOfCall.state = target
            /\ \A i \in Confirmations : lastCall.steps[i].message["state"] = target

\* A toggle of an LED with no recorded state resolved to on
C11_Witness ==
    /\ lastCall.op = "control_led" /\ lastCall.valid /\ lastCall.action = "toggle"
    /\ RecordedState(lastCall.before, "led") = None
    /\ lastCall.result.state = Some("on")
    /\ Confirmations # {}

\* The last control call was given an action outside the enum of its device
OutsideEnum ==
    \/ lastCall.op = "control_led" /\ lastCall.action \notin {"on", "off", "toggle"}
    \/ lastCall.op = "control_buzzer"
         /\ lastCall.action \notin {"on", "off", "beep", "alarm"}

\* C13: control_led with an action outside {on, off, toggle} and control_buzzer
\* with an action outside {on, off, beep, alarm} return success false with an
\* error text, write no DeviceState and publish nothing.
C13_InvalidActionRejected ==
    OutsideEnum =>
        /\ ~lastCall.result.success
        /\ lastCall.result.error # None
        /\ lastCall.steps = <<>>
        /\ deviceStates = lastCall.before

\* control_led was given a buzzer action while the bus client was up, and
\* rejected it
C13_Witness ==
    /\ lastCall.op = "control_led" /\ lastCall.action = "beep"
    /\ router.service
    /\ ~lastCall.result.success
    /\ lastCall.steps = <<>>

\* C14: a failed publish leaves the DeviceState as the save of the same call
\* wrote it, and a failed control_command publish does not keep the state
\* confirmation from being published.
C14_PublishFailureKeepsState ==
    (ValidControlCall /\ CallSaved) =>
        /\ SaveOfCall.ok =>
               /\ RecordedState(deviceStates, DeviceOfCall) = Some(SaveOfCall.state)
               /\ Len(deviceStates) = Len(lastCall.before)
        /\ ~SaveOfCall.ok => deviceStates = lastCall.before
        /\ router.service =>
               /\ Len(lastCall.steps) = 3
               /\ lastCall.steps[2].type = "control_command"
               /\ lastCall.steps[3].type = "state_update"

\* The control_command publish failed; the state saved before it is still
\* recorded and the confirmation was published after it
C14_Witness ==
    /\ ValidControlCall /\ CallSaved /\ SaveOfCall.ok
    /\ Len(lastCall.steps) = 3
    /\ ~lastCall.steps[2].ok
    /\ lastCall.steps[3].type = "state_update" /\ lastCall.steps[3].ok
    /\ RecordedState(lastCall.before, DeviceOfCall) # Some(SaveOfCall.state)
    /\ RecordedState(deviceStates, DeviceOfCall) = Some(SaveOfCall.state)

\* C15: whenever control_led or control_buzzer('on'/'off') returns success with
\* state s, the DeviceState recorded for the device is s; when the save fails
\* the call does not report success and publishes no state confirmation.
C15_SuccessMeansRecorded ==
    (ValidControlCall /\ CallSaved) =>
        /\ (lastCall.result.success /\ lastCall.result.state # None) =>
               RecordedState(deviceStates, DeviceOfCall) = lastCall.result.state
        /\ ~SaveOfCall.ok => (~lastCall.result.success /\ Confirmations = {})

-----------------------------------------------------------------------------
(* Control synchronizer under concurrent requests: properties (SpecThreads) *)

\* Thread t is in, or has finished, a toggle that read the LED state while the
\* other thread's toggle had read it and not yet written
RacedToggle(t) ==
    threads[t].device = "led" /\ threads[t].action = "toggle" /\ threads[t].raced

Committer == threads[lastCall.thread]

\* C16: under every interleaving of control_led and control_buzzer calls the
\* device_states table holds at most one row per device_name; a save for a
\* device that has a row changes the state of that row in place, and a row is
\* added only when the device has none; also when two saves overlap.
C16_OneRowPerDevice ==
    /\ \A i \in 1..Len(deviceStates) : \A j \in 1..Len(deviceStates) :
           deviceStates[i].device_name = deviceStates[j].device_name => i = j
    /\ lastCall.op = "save_commit" =>
           /\ (~DeviceNameFree(lastCall.before, Committer.device) /\ lastCall.dbOk) =>
                  /\ Committer.committed = Some(TRUE)
                  /\ Len(deviceStates) = Len(lastCall.before)
                  /\ RecordedState(deviceStates, Committer.device) =
                         Some(Committer.state)
                  /\ \A i \in 1..Len(deviceStates) :
                         deviceStates[i].device_name # Committer.device =>
                             deviceStates[i] = lastCall.before[i]
           /\ Len(deviceStates) # Len(lastCall.before) =>
                  /\ DeviceNameFree(lastCall.before, Committer.device)
                  /\ Len(deviceStates) = Len(lastCall.before) + 1

\* Two saves for the same device overlapped: one thread changed the row
\* between the other's query and commit, and both committed on the one row
C16_Witness ==
    /\ lastCall.op = "save_commit"
    /\ Committer.overlap /\ Committer.committed = Some(TRUE)
    /\ \E u \in ThreadIds \ {lastCall.thread} :
           /\ threads[u].device = Committer.device
           /\ threads[u].committed = Some(TRUE)
           /\ threads[u].state # Committer.state
    /\ RecordedState(deviceStates, Committer.device) = Some(Committer.state)
    /\ Cardinality({i \in 1..Len(deviceStates) :
                       deviceStates[i].device_name = Committer.device}) = 1

\* Two saves for a device with no row overlapped; the table still has no row
\* of that name
C16_NoRowOverlap ==
    /\ lastCall.op = "save_commit"
    /\ Committer.overlap /\ Committer.found = None /\ lastCall.dbOk
    /\ \E u \in ThreadIds \ {lastCall.thread} :
           /\ threads[u].device = Committer.device
           /\ threads[u].found = None /\ threads[u].committed # None
    /\ DeviceNameFree(deviceStates, Committer.device)

-----------------------------------------------------------------------------
(* Motion history: properties (SpecHistory) *)

\* The last read started or ended a motion (it invoked one of the callbacks)
EventOfRead == callbacks # lastCall.callbacksBefore

\* The sensor state LongRunSensor(n) is the one n reads of alternating samples
\* lead to
AlternatingRun ==
    \A i \in 1..Len(fed) :
        fed[i][2] = (i % 2 = 1) /\ fed[i][1] = EventOfRun(i).timestamp
LongRunAgrees ==
    (pir.is_initialised /\ Len(fed) = calls /\ Len(fed) > 0 /\ AlternatingRun) =>
        (pir = LongRunSensor(Len(fed)) /\ now = TimeAfterRun(Len(fed)))

\* C20: the motion history never holds more than its capacity (100 entries);
\* a read that records an event appends it as the newest entry, and when the
\* history was full exactly the oldest entry is dropped, the others keeping
\* their order.
C20_HistoryBoundedFifo ==
    /\ Len(pir.motion_history) <= MaxHistory
    /\ (SampledRead /\ ~EventOfRead) =>
           pir.motion_history = lastCall.before.motion_history
    /\ (SampledRead /\ EventOfRead) =>
           LET old == lastCall.before.motion_history
               new == pir.motion_history
           IN  /\ Last(new).timestamp = lastCall.at
               /\ Last(new).type =
                      (IF callbacks.detected # lastCall.callbacksBefore.detected
                       THEN "start" ELSE "end")
               /\ Len(old) < MaxHistory =>
                      (Len(new) = Len(old) + 1 /\ SubSeq(new, 1, Len(old)) = old)
               /\ Len(old) = MaxHistory =>
                      /\ Len(new) = MaxHistory
                      /\ SubSeq(new, 1, MaxHistory - 1) = Tail(old)

\* An event was recorded while the history was full: the oldest entry is gone
\* and the second oldest is now the first
C20_Witness ==
    /\ SampledRead
    /\ Len(lastCall.before.motion_history) = MaxHistory
    /\ Len(pir.motion_history) = MaxHistory
    /\ EventOfRead
    /\ pir.motion_history[1] = lastCall.before.motion_history[2]
    /\ Last(pir.motion_history).timestamp = lastCall.at

-----------------------------------------------------------------------------
(* Motion statistics: properties (SpecStatistics) *)

\* The history entry that was the last one when the last read appended its
\* event was a start event
PrecededByStart ==
    /\ lastCall.before.motion_history # <<>>
    /\ Last(lastCall.before.motion_history).type = "start"

\* C21: an end event carries a duration only if the history entry that
\* preceded it when it was appended was a start event, and then the duration
\* is the time since that start and is added to the recorded durations; with
\* an empty history or a preceding end event the end event has no duration
\* and the recorded durations are left as they are.
C21_DurationOnlyAfterStart ==
    /\ (SampledRead /\ EndEmitted) =>
           LET event == Last(pir.motion_history)
               since == lastCall.at - Last(lastCall.before.motion_history).timestamp
           IN  /\ PrecededByStart =>
                      /\ event.duration = Some(since)
                      /\ pir.motion_durations =
                             Append(lastCall.before.motion_durations, since)
               /\ ~PrecededByStart =>
                      /\ event.duration = None
                      /\ pir.motion_durations = lastCall.before.motion_durations
    /\ \A i \in 2..Len(pir.motion_history) :
           (pir.motion_history[i].type = "end"
              /\ pir.motion_history[i].duration # None) =>
               pir.motion_history[i - 1].type = "start"
    /\ (pir.motion_history # <<>> /\ pir.motion_history[1].type = "end"
          /\ Len(pir.motion_history) < MaxHistory) =>
           pir.motion_history[1].duration = None

\* A motion ended after reset_statistics had emptied the history: its end
\* event has no duration and no duration was recorded
C21_Witness ==
    /\ SampledRead /\ EndEmitted
    /\ lastCall.before.motion_history = <<>>
    /\ Last(pir.motion_history).duration = None
    /\ pir.motion_durations = <<>>

-----------------------------------------------------------------------------
(* DHT22 sensor: properties (SpecDHT22) *)

RetryCall == lastCall.op = "read_with_retry"
\* The read calls the last read_with_retry made
Attempts == Len(lastCall.results)
\* The first read of the last call answered from the cache
FirstFromCache == CacheHit(lastCall.before, lastCall.at)
\* The attempts of the last call at which the probe gave a pair
WorkingAttempts == {i \in 1..lastCall.max_attempts : lastCall.oks[i]}

\* C22: read_with_retry with max_attempts = n makes at most n read calls,
\* stops at the first one that returns a pair and returns that pair, and
\* returns nothing after exactly n calls when all of them fail; when the
\* probe is polled at every attempt the call that succeeds is the first
\* attempt at which the probe works and the pair is that poll's pair.
C22_RetryStopsAtFirstSuccess ==
    RetryCall =>
        /\ Attempts >= 1 /\ Attempts <= lastCall.max_attempts
        /\ \A i \in 1..(Attempts - 1) : lastCall.results[i] = None
        /\ lastCall.returned = Last(lastCall.results)
        /\ lastCall.returned = None => Attempts = lastCall.max_attempts
        /\ (HardwareMode(lastCall.before) /\ ~FirstFromCache) =>
               /\ lastCall.returned = None <=> WorkingAttempts = {}
               /\ lastCall.returned # None =>
                      /\ Attempts \in WorkingAttempts
                      /\ \A i \in WorkingAttempts : Attempts <= i
                      /\ lastCall.returned =
                             Some(PairOfPoll(lastCall.before.polls + Attempts))
               /\ dht.polls = lastCall.before.polls + Attempts

\* The probe failed at attempts 1 and 2 of 3 and worked at attempt 3: three
\* read calls were made and the pair of the third poll was returned
C22_Witness ==
    /\ RetryCall
    /\ lastCall.max_attempts = 3
    /\ lastCall.oks = <<FALSE, FALSE, TRUE>>
    /\ HardwareMode(lastCall.before)
    /\ Attempts = 3
    /\ lastCall.returned = Some(PairOfPoll(lastCall.before.polls + 3))

\* The last operation was a read made less than the minimum read interval
\* after the previous read call
ReadInsideInterval ==
    /\ lastCall.op = "dht22_read"
    /\ lastCall.before.called # None
    /\ lastCall.at - TheValue(lastCall.before.called) < MinReadInterval

\* C23: a read made less than the minimum read interval after the previous
\* read returns the last cached pair and never an error, whatever the
\* previous read returned.
C23_ReadInsideIntervalReturnsCache ==
    ReadInsideInterval =>
        /\ lastCall.returned # None
        /\ lastCall.before.last_temperature # None
        /\ lastCall.before.last_humidity # None
        /\ lastCall.returned =
               Some(<<TheValue(lastCall.before.last_temperature),
                      TheValue(lastCall.before.last_humidity)>>)
        /\ dht.polls = lastCall.before.polls

-----------------------------------------------------------------------------
(* Edge controller: properties (SpecLoop, SpecShutdown) *)

IterationRan == lastCall.op = "run_iteration"
\* The sensor batches handed to PubNub during the last iteration
BatchesOfIteration ==
    { i \in (lastCall.sentBefore + 1)..Len(controller.sent) :
        controller.sent[i].message.type = "sensor_data" }

\* C24: a sensor that returns nothing never blocks the batch: the batch of
\* an iteration has the temperature and humidity fields exactly when the
\* DHT22 read returned a pair after its retries and the light field exactly
\* when the light read returned a value, each with the value read, it always
\* has device_id, location and timestamp, and the same iteration hands
\* exactly that batch to PubNub, once.
C24_PartialBatchPublished ==
    IterationRan =>
        LET data == lastCall.data
        IN  /\ {"device_id", "location", "timestamp"} \subseteq DOMAIN data
            /\ data.device_id = DeviceId /\ data.location = DeviceLocation
            /\ data.timestamp = lastCall.at
            /\ "temperature" \in DOMAIN data <=> lastCall.reading # None
            /\ "humidity" \in DOMAIN data <=> lastCall.reading # None
            /\ lastCall.reading # None =>
                   <<data.temperature, data.humidity>> = TheValue(lastCall.reading)
            /\ "light" \in DOMAIN data <=> lastCall.light # None
            /\ lastCall.light # None => data.light = TheValue(lastCall.light)
            /\ Cardinality(BatchesOfIteration) = 1
            /\ \A i \in BatchesOfIteration :
                   /\ controller.sent[i].channel = SensorChannel
                   /\ controller.sent[i].message = ("type" :> "sensor_data") @@ data

\* The DHT22 read returned nothing after its retries and the light read
\* returned a value: the batch without temperature and humidity was published
C24_Witness ==
    /\ IterationRan
    /\ lastCall.reading = None /\ lastCall.light # None
    /\ DOMAIN lastCall.data = {"device_id", "location", "timestamp", "light"}
    /\ Last(controller.sent).message = ("type" :> "sensor_data") @@ lastCall.data

-----------------------------------------------------------------------------
(* PubNub service: properties (SpecService) *)

Published == lastCall.op = "publish"

\* C25: publish adds a timestamp only to a message that has none and leaves
\* an existing timestamp as it is, hands the message to PubNub exactly once
\* whatever the outcome, never raises, and returns True exactly when the
\* send reported no error.
C25_PublishOnceAndReport ==
    Published =>
        /\ Len(pubnub.sent) = lastCall.sentBefore + 1
        /\ Last(pubnub.sent).channel = lastCall.channel
        /\ "timestamp" \in DOMAIN Last(pubnub.sent).message
        /\ \A k \in DOMAIN lastCall.message :
               Last(pubnub.sent).message[k] = lastCall.message[k]
        /\ DOMAIN Last(pubnub.sent).message =
               DOMAIN lastCall.message \cup {"timestamp"}
        /\ "timestamp" \notin DOMAIN lastCall.message =>
               Last(pubnub.sent).message.timestamp = now
        /\ ~lastCall.raised
        /\ lastCall.returned <=> lastCall.outcome = "ok"

\* A message with a timestamp of its own was published and the send reported
\* an error: one attempt, the timestamp as it was, False returned
C25_Witness ==
    /\ Published
    /\ "timestamp" \in DOMAIN lastCall.message
    /\ lastCall.outcome = "error_status"
    /\ Last(pubnub.sent).message = lastCall.message
    /\ Len(pubnub.sent) = lastCall.sentBefore + 1
    /\ ~lastCall.returned

\* C26: after any sequence of add_message_handler and subscribe calls a
\* channel has the handler registered last for it, and a message that
\* arrives on channel c invokes that handler exactly once and no other
\* handler, and invokes nothing when c has no handler.
C26_LastHandlerInvokedOnce ==
    /\ lastCall.op = "add_message_handler" =>
           pubnub.handlers[lastCall.channel] = lastCall.handler
    /\ lastCall.op = "message" =>
           lastCall.invoked =
               IF lastCall.channel \in DOMAIN pubnub.handlers
               THEN <<pubnub.handlers[lastCall.channel]>>
               ELSE <<>>

-----------------------------------------------------------------------------
(* Wire envelope: properties (SpecWire) *)

\* C27: a reading encoded with create_sensor_message and parsed back with
\* SensorReading.from_pubnub_message has the sensor_type, value, unit and
\* device_id it was encoded from.
C27_RoundTripKeepsReading ==
    lastCall.op = "from_pubnub_message" =>
        /\ lastCall.reading.sensor_type = Some(lastCall.given.sensor_type)
        /\ lastCall.reading.value = Some(lastCall.given.value)
        /\ lastCall.reading.unit = Some(lastCall.given.unit)
        /\ lastCall.reading.device_id = lastCall.given.device_id

\* A reading of value 0.0 from a device other than the default one went
\* through the round trip
C27_Witness ==
    /\ lastCall.op = "from_pubnub_message"
    /\ lastCall.given.value = 0
    /\ lastCall.given.device_id = "rpi-001"
    /\ lastCall.reading.value = Some(0)
    /\ lastCall.reading.device_id = "rpi-001"

-----------------------------------------------------------------------------
(* Control synchronizer: the confirmation message (SpecControl) *)

\* The command publishes of the last control call
Commands ==
    {i \in 1..Len(lastCall.steps) :
        lastCall.steps[i].step = "publish"
          /\ lastCall.steps[i].type = "control_command"}

\* C28: the confirmation published by a successful command has type
\* state_update while the command has type control_command, and its state is
\* the state the call persisted for the device, for a toggle the computed on
\* or off and never the literal toggle.
C28_ConfirmationReportsPersistedState ==
    (ValidControlCall /\ lastCall.result.success) =>
        \A i \in Confirmations :
            LET confirmation == lastCall.steps[i].message
            IN  /\ confirmation["type"] = "state_update"
                /\ \A j \in Commands :
                       lastCall.steps[j].message["type"] = "control_command"
                /\ confirmation["state"] \in {"on", "off"}
                /\ CallSaved /\ SaveOfCall.ok
                /\ SaveOfCall.state = confirmation["state"]
                /\ RecordedState(deviceStates, DeviceOfCall) =
                       Some(confirmation["state"])

-----------------------------------------------------------------------------
(* Control API: properties (SpecApi) *)

\* The last request gave an action outside the allowed set of its device
InvalidRequest ==
    /\ lastCall.op \in {"post_led", "post_buzzer"}
    /\ ~MissingAction(lastCall.data)
    /\ TheValue(lastCall.data)["action"] \notin
           (IF lastCall.op = "post_led" THEN {"on", "off", "toggle"}
            ELSE {"on", "off", "beep", "alarm"})

\* C30: a POST to the led or buzzer route with an action outside the allowed
\* set of the device is answered with an explicit error response and never
\* with a success response.
C30_InvalidCommandIsAnError ==
    InvalidRequest =>
        /\ lastCall.response.status >= 400
        /\ "error" \in DOMAIN lastCall.response.body
        /\ "success" \notin DOMAIN lastCall.response.body

-----------------------------------------------------------------------------
(* Motion sensor reads that take no sample: properties (SpecPIR) *)

\* The last operation was a read inside the debounce window
DebouncedRead ==
    lastCall.op = "read" /\ ~lastCall.sampled /\ lastCall.returned # None
\* The last read took no raw sample, invoked no callback and left the motion
\* state as it was
NothingSampled ==
    /\ Len(fed) = lastCall.fedBefore
    /\ callbacks = lastCall.callbacksBefore
    /\ pir.motion_active = lastCall.before.motion_active
    /\ pir.last_motion_time = lastCall.before.last_motion_time
    /\ pir.last_state = lastCall.before.last_state
    /\ pir.motion_history = lastCall.before.motion_history
    /\ pir.total_motion_events = lastCall.before.total_motion_events

\* C31: a read made less than debounce_time after the last accepted sample
\* takes no raw sample, emits no event, changes no motion state and returns
\* what the previous read returned.
C31_DebouncedReadRepeatsPrevious ==
    DebouncedRead =>
        /\ NothingSampled
        /\ lastCall.previous # None =>
               lastCall.returned = TheValue(lastCall.previous)

\* The frame half of C31 alone
DebouncedReadChangesNothing == DebouncedRead => NothingSampled

\* C32: while the sensor is not initialised or not calibrated, a read returns
\* no boolean, takes no raw sample, emits no event, invokes no callback and
\* leaves the motion state unchanged.
C32_NotReadyReadDoesNothing ==
    ( /\ lastCall.op = "read"
      /\ ~lastCall.before.is_initialised \/ ~lastCall.before.calibration_complete ) =>
        /\ lastCall.returned = None
        /\ ~lastCall.sampled
        /\ NothingSampled
        /\ pir.motion_durations = lastCall.before.motion_durations
C32_Witness ==
    /\ lastCall.op = "read"
    /\ ~lastCall.before.is_initialised
    /\ lastCall.returned = None
    /\ pir.total_readings >= 2

\* C33: when the callback a read invokes raises, nothing leaves read: the
\* counter update and the history entry of the transition are kept, the last
\* motion time, the active flag and the last raw state of the sample are set,
\* and read returns the sample.
C33_CallbackErrorIsContained ==
    (lastCall.op = "read" /\ lastCall.sampled /\ lastCall.thrown) =>
        LET sample == Last(fed)[2] IN
        /\ ~lastCall.raised
        /\ lastCall.returned = Some(sample)
        /\ sample =>
               /\ pir.total_motion_events = lastCall.before.total_motion_events + 1
               /\ Last(pir.motion_history).type = "start"
               /\ Last(pir.motion_history).timestamp = lastCall.at
               /\ pir.last_motion_time = Some(lastCall.at)
               /\ pir.motion_active
        /\ ~sample =>
               /\ Last(pir.motion_history).type = "end"
               /\ Last(pir.motion_history).timestamp = lastCall.at
               /\ ~pir.motion_active
        /\ pir.last_state = sample
        /\ pir.last_read_time = lastCall.at
C33_Witness ==
    /\ lastCall.op = "read" /\ lastCall.sampled /\ lastCall.thrown
    /\ ~Last(fed)[2]
    /\ callbacks.ended = lastCall.callbacksBefore.ended + 1
    /\ lastCall.returned = Some(FALSE)

-----------------------------------------------------------------------------
(* LED brightness: properties (SpecControl) *)

\* The last call was control_led with a valid action
ValidLedCall == lastCall.op = "control_led" /\ lastCall.valid
\* The brightness values the last call handed to the save and published
BrightnessesOfCall ==
    { IF lastCall.steps[i].step = "save_device_state"
      THEN lastCall.steps[i].parameters["brightness"]
      ELSE IF lastCall.steps[i].type = "control_command"
      THEN lastCall.steps[i].message["brightness"]
      ELSE lastCall.steps[i].message["parameters"]["brightness"]
      : i \in 1..Len(lastCall.steps) }

\* C34: for every integer brightness given to control_led with a valid
\* action, the brightness saved, published in the command and in the
\* confirmation and returned is within 0..100: 0 for a value below 0, 100 for
\* a value above 100, and the value itself otherwise.
C34_BrightnessClamped ==
    ValidLedCall =>
        LET given == lastCall.brightness
            expected == IF given < 0 THEN 0 ELSE IF given > 100 THEN 100 ELSE given
        IN  /\ expected \in 0..100
            /\ lastCall.result.brightness = Some(expected)
            /\ BrightnessesOfCall = {expected}
C34_Witness ==
    /\ ValidLedCall
    /\ lastCall.brightness > 100
    /\ Len(lastCall.steps) = 3
    /\ BrightnessesOfCall = {100}

-----------------------------------------------------------------------------
(* Alert labels: properties (SpecAlert) *)

\* The name of each sensor quantity as an alert label spells it
QuantityLabel ==
    ("temperature" :> "TEMPERATURE") @@ ("humidity" :> "HUMIDITY") @@
    ("light" :> "LIGHT") @@ ("motion" :> "MOTION") @@ ("pressure" :> "PRESSURE")

\* C39: the alert_type of every threshold alert names the breach direction
\* and the sensor quantity of the alert's sensor_type; a humidity or light
\* breach is never labelled as a temperature alert.
C39_AlertTypeNamesItsSensor ==
    (lastCall.op = "check_thresholds" /\ lastCall.alert_data # None) =>
        LET alert == TheValue(lastCall.alert_data) IN
        /\ alert["sensor_type"] = lastCall.sensor_type
        /\ alert["alert_type"] =
               (IF AboveHigh THEN "HIGH_" ELSE "LOW_")
                   \o QuantityLabel[alert["sensor_type"]]
        /\ alert["sensor_type"] \in {"humidity", "light"} =>
               alert["alert_type"] \notin {"HIGH_TEMPERATURE", "LOW_TEMPERATURE"}

-----------------------------------------------------------------------------
(* DHT22 probe accesses: properties (SpecDHT22) *)

\* The last read polled the probe, and the probe had been polled before
PolledAgain ==
    /\ lastCall.op = "dht22_read"
    /\ HardwareMode(lastCall.before)
    /\ dht.polls = lastCall.before.polls + 1
    /\ lastCall.before.polls > 0

\* C38: over any sequence of read calls the probe is polled at most once in
\* any window shorter than the minimum read interval, also after a failed
\* poll and with nothing cached: two polls are at least the interval apart.
C38_PollsAtLeastIntervalApart ==
    PolledAgain =>
        lastCall.at - lastCall.before.last_read_time >= MinReadInterval

-----------------------------------------------------------------------------
(* Edge listener: properties (SpecListener) *)

\* The device and action pairs handle_control_command knows
RecognisedPairs ==
    { <<Some("buzzer"), Some(action)>> : action \in {"beep", "on", "off", "alarm"} }
    \cup { <<Some("led"), Some(action)>> : action \in {"on", "off", "toggle"} }
\* The last message was a recognised command on the control channel
RecognisedCommand ==
    /\ lastCall.channel = ControlChannel
    /\ lastCall.message # NotADict
    /\ Get(lastCall.message, "type") = Some("control_command")
    /\ <<Get(lastCall.message, "device"), Get(lastCall.message, "action")>>
           \in RecognisedPairs

\* C40: the edge controller changes an actuator only for a control_command
\* of the control channel with a known device and action; every other
\* message, the server's state_update confirmation among them, changes no
\* actuator, is answered with no publish and raises nothing out of the
\* listener.
C40_OnlyCommandsMoveActuators ==
    lastCall.op = "control_command" =>
        /\ controller.gpio # lastCall.gpioBefore => RecognisedCommand
        /\ ~RecognisedCommand =>
               /\ controller.gpio = lastCall.gpioBefore
               /\ Len(controller.sent) = lastCall.sentBefore
               /\ ~lastCall.raised
        /\ controller.sent = <<>>
C40_Witness ==
    /\ lastCall.op = "control_command"
    /\ lastCall.channel = ControlChannel
    /\ lastCall.message = StateUpdate("led", "off", ("brightness" :> 100))
    /\ lastCall.gpioBefore.led = "on"
    /\ controller.gpio.led = "on"
    /\ controller.sent = <<>>

-----------------------------------------------------------------------------
(* Toggle sequences: properties (SpecToggle) *)

Flip(state) == IF state = "on" THEN "off" ELSE "on"
\* The state the LED has after n toggles that began at `initial` (no recorded
\* state counts as off)
AfterToggles(initial, n) ==
    LET start == IF initial = Some("on") THEN "on" ELSE "off"
    IN  IF n % 2 = 1 THEN Flip(start) ELSE start

\* C37: from any recorded LED state (none included), n toggles made one after
\* the other leave the recorded state flipped iff n is odd: each toggle
\* returns and records the opposite of what the toggle before it returned, so
\* the returned states alternate, on first from an initial off.
C37_TogglesAlternate ==
    lastCall.op = "toggle_led" =>
        /\ \A i \in 1..Len(lastCall.returned) :
               lastCall.returned[i] = AfterToggles(lastCall.initial, i)
        /\ RecordedState(deviceStates, "led") =
               Some(AfterToggles(lastCall.initial, Len(lastCall.returned)))

\* The same from a recorded state
TogglesAlternateFromARow ==
    (lastCall.op = "toggle_led" /\ lastCall.initial # None) =>
        /\ \A i \in 1..Len(lastCall.returned) :
               lastCall.returned[i] = AfterToggles(lastCall.initial, i)
        /\ RecordedState(deviceStates, "led") =
               Some(AfterToggles(lastCall.initial, Len(lastCall.returned)))

-----------------------------------------------------------------------------
(* Server record and edge outputs: properties (SpecMirror) *)

\* C35: after any sequence of LED and buzzer on/off/toggle commands, each
\* persisted by the server and delivered to the edge device in order, with
\* motion events on the edge in between, the state the server records for each
\* actuator is the state the edge device last drove that actuator to.
C35_RecordMirrorsOutputs ==
    /\ RecordedState(deviceStates, "led") = Some(controller.gpio.led)
    /\ RecordedState(deviceStates, "buzzer") = Some(controller.gpio.buzzer)

\* Commands that set a state are mirrored as long as no motion starts
SetCommandMirrored ==
    (lastCall.op = "command_round_trip" /\ lastCall.action # "toggle") =>
        RecordedState(deviceStates, lastCall.device) =
            Some(IF lastCall.device = "led" THEN controller.gpio.led
                 ELSE controller.gpio.buzzer)

-----------------------------------------------------------------------------
(* Motion alerts on their way to the server: properties (SpecMotionAlert) *)

\* The bus has delivered a MOTION_DETECTED alert of the edge controller to the
\* server
MotionAlertDelivered ==
    \E i \in 1..controller.delivered :
        Get(controller.sent[i].message, "alert_type") = Some("MOTION_DETECTED")
\* The server holds as many MOTION_DETECTED alerts as were delivered to it
MotionAlertsPersisted ==
    Cardinality({j \in 1..Len(alerts) : alerts[j].alert_type = "MOTION_DETECTED"})
      >= Cardinality({i \in 1..controller.delivered :
             Get(controller.sent[i].message, "alert_type") = Some("MOTION_DETECTED")})

BatchDeliveredIsHandled ==
    (lastCall.op = "bus_delivery"
       /\ Get(lastCall.message, "type") = Some("sensor_data")) =>
        ~lastCall.did.dropped

\* No run of the composed system ever holds a MOTION_DETECTED alert on the
\* server, however long it goes on
MotionAlertNeverPersisted ==
    \A j \in 1..Len(alerts) : alerts[j].alert_type # "MOTION_DETECTED"

=============================================================================
